---- MODULE Spec2Model ----
(***************************************************************************)
(* Model of the QR styling/export pipeline of qr-code-art-generator:       *)
(*   - the URL normalizer (isValidUrl, formatUrl) of src/lib/qr-generator.ts*)
(*   - the base symbol generators (generateQRCode, generateQRCodeSVG) with  *)
(*     their styling stage (applyArtisticEffects, applyImagePattern,        *)
(*     applySVGArtisticEffects)                                             *)
(*   - the QRGenerator component's generateQR and handleDownload, with      *)
(*     downloadQRCode / generatePDF / downloadFile.                         *)
(* Strings are sequences of one-character strings.                          *)
(***************************************************************************)
EXTENDS Integers, Sequences, FiniteSets, TLC

VARIABLES
    \* ---- URL normalizer harness ----
    text,            \* the JS value handed to isValidUrl / formatUrl
    urlPc,           \* which calls have been made on text
    validOut,        \* isValidUrl(text)
    formatOut,       \* formatUrl(text)
    validFormatOut,  \* isValidUrl(formatUrl(text))
    formatTwiceOut,  \* formatUrl(formatUrl(text))
    \* ---- one generateQRCode call and one generateQRCodeSVG call ----
    genConfig,       \* the QRCodeConfig both generators are called with
    rPc,             \* where the generateQRCode call stands
    rError,          \* message of the error generateQRCode rejected with, "" if none
    rResult,         \* the raster generateQRCode resolved with
    canvas,          \* operations applied to the canvas of applyArtisticEffects
    sPc,             \* where the generateQRCodeSVG call stands
    sError,          \* message of the error generateQRCodeSVG rejected with
    sResult,         \* the markup generateQRCodeSVG resolved with
    encoderCalls,    \* calls made to the qrcode library
    stepsDone,       \* styling steps entered so far
    \* ---- the QRGenerator component ----
    currentStep,     \* wizard step
    url,             \* text of the URL input
    config,          \* QRCodeConfig state
    qrDataUrl,       \* raster artifact held, EmptyString if none
    qrSvg,           \* vector artifact held, EmptyString if none
    isGenerating,
    error,           \* error message, "" for null
    runs,            \* generateQR calls: request number -> state of the call
    requested,       \* number of generateQR calls that reached the generators
    downloads,       \* downloadQRCode calls: slot -> state of the call and its caller
    started,         \* number of download slots used
    savedFiles,      \* files handed to the browser's file save (link.click)
    historyCalls,    \* records handed to saveQRHistory
    blobs,           \* blob URLs created with URL.createObjectURL
    revokeTimers,    \* blob URLs with a pending setTimeout(revokeObjectURL)
    revokedBlobs,    \* blob URLs revoked
    lastEvent,       \* the handler that ran last, with what it finished
    \* ---- one generatePDF image load ----
    pdfPc,           \* where img.onload of generatePDF stands
    pdfImage,        \* pixel width and height of the decoded image
    pdfPage,         \* width and height of the page of the jsPDF document
    pdfDoc,          \* the document: its pages and the images added to it
    \* ---- calls of applySVGArtisticEffects ----
    svgOut,          \* per call made, the definition ids it injected
    \* ---- one call of applyDotStyle ----
    dotsPc,          \* where the call stands
    dotsWidth,       \* its width argument
    dotsHeight,      \* its height argument
    dotsData,        \* the pixels of the image the canvas held, by y * width + x
    dotsAt,          \* x and y of the loops
    dotsCircles,     \* the circles filled, in half pixels
    \* ---- the ExportOptions component ----
    eoDisabled,      \* its disabled prop
    isDownloading,   \* the format whose download it shows, or null
    eoCalls,         \* its handleDownload calls: format, and where each stands
    \* ---- the loops of applyImagePattern ----
    tilePc,          \* which loop runs, or how the promise settled
    tileArgs,        \* width and height of the canvas and of the pattern image
    tileAt,          \* x and y of the loop that runs
    \* ---- one call of adjustColorBrightness ----
    colorPc,         \* whether the call was made
    colorIn,         \* its arguments color and amount
    colorOut,        \* the string it returned
    \* ---- one call of applySVGArtisticEffects on a markup ----
    markupPc,        \* whether the call was made
    markupIn,        \* its arguments: the markup, the style, the pattern image
    markupOut        \* the markup it returned

urlVars == <<text, urlPc, validOut, formatOut, validFormatOut, formatTwiceOut>>
genVars == <<genConfig, rPc, rError, rResult, canvas, sPc, sError, sResult,
             encoderCalls, stepsDone>>

wizardVars == <<currentStep, url, config>>
artifactVars == <<qrDataUrl, qrSvg>>
runVars == <<isGenerating, runs, requested>>
downloadVars == <<downloads, started, savedFiles, historyCalls, blobs,
                  revokeTimers, revokedBlobs>>
appVars == <<wizardVars, artifactVars, runVars, downloadVars, error, lastEvent>>

pdfVars == <<pdfPc, pdfImage, pdfPage, pdfDoc>>
svgVars == <<svgOut>>
dotsVars == <<dotsPc, dotsWidth, dotsHeight, dotsData, dotsAt, dotsCircles>>
fnVars == <<pdfVars, svgVars, dotsVars>>

eoVars == <<eoDisabled, isDownloading, eoCalls>>
tileVars == <<tilePc, tileArgs, tileAt>>
colorVars == <<colorPc, colorIn, colorOut>>
markupVars == <<markupPc, markupIn, markupOut>>
auxVars == <<eoVars, tileVars, colorVars, markupVars>>

vars == <<urlVars, genVars, appVars, fnVars, auxVars>>

-----------------------------------------------------------------------------
(* Bounds of the model *)

\* longest text drawn freely from Alphabet
MaxLen == 4
\* most dot-separated labels in a structured host name
MaxLabels == 3
\* largest config.size of a generator call
MaxSize == 2
\* largest config.margin of a generator call
MaxMargin == 2
\* most generateQR calls in one behaviour
MaxRuns == 2
\* most downloadQRCode calls in one behaviour
MaxDownloads == 2
\* pixel width and height of a decoded image
MaxPixels == 4
\* page width and height beyond the two 10 mm margins
MaxPageExtent == 3
\* bits of the significand of a number (a double has 53)
MantissaBits == 5
\* calls of applySVGArtisticEffects in one document
MaxSvgCalls == 3
\* columns and rows of the grid of applyDotStyle
MaxDotColumns == 2
MaxDotRows == 1
\* handleDownload calls of ExportOptions
MaxExportClicks == 3
\* width and height of the canvas of applyImagePattern
MaxCanvas == 3
\* shape elements in the markup handed to applySVGArtisticEffects
MaxElements == 2

-----------------------------------------------------------------------------
(* JS values: a string, or a non-string value that is truthy or falsy *)

JsString(s) == [type |-> "string", chars |-> s, truthy |-> s # <<>>]
JsOther(t) == [type |-> "other", chars |-> <<>>, truthy |-> t]
NonStrings == {JsOther(TRUE), JsOther(FALSE)}
IsString(v) == v.type = "string"
Truthy(v) == v.truthy

-----------------------------------------------------------------------------
(* Characters *)

AsciiAlpha == {"a", "h", "p", "s", "t"}
AsciiDigit == {"0", "1", "2", "3", "4", "5", "6", "7", "8", "9"}
AsciiAlnum == AsciiAlpha \cup AsciiDigit
WhiteSpace == {" "}
\* the characters the inputs are drawn from
Alphabet == {"a", "1", "-", ".", "/", ":", " "}
HttpsPrefix == <<"h", "t", "t", "p", "s", ":", "/", "/">>

DigitVal(c) ==
    CASE c = "0" -> 0 [] c = "1" -> 1 [] c = "2" -> 2 [] c = "3" -> 3
      [] c = "4" -> 4 [] c = "5" -> 5 [] c = "6" -> 6 [] c = "7" -> 7
      [] c = "8" -> 8 [] c = "9" -> 9

RECURSIVE DecimalValue(_)
DecimalValue(s) ==
    IF s = <<>> THEN 0
    ELSE 10 * DecimalValue(SubSeq(s, 1, Len(s) - 1)) + DigitVal(s[Len(s)])

AllIn(s, S) == \A i \in 1..Len(s) : s[i] \in S

\* index of the first character of s that is in S, 0 if there is none
FirstIdx(s, S) ==
    IF \E i \in 1..Len(s) : s[i] \in S
    THEN CHOOSE i \in 1..Len(s) : s[i] \in S /\ \A j \in 1..(i - 1) : s[j] \notin S
    ELSE 0

From(s, i) == SubSeq(s, i, Len(s))
Upto(s, i) == SubSeq(s, 1, i)

RECURSIVE TrimStart(_)
TrimStart(s) ==
    IF s # <<>> /\ Head(s) \in WhiteSpace THEN TrimStart(Tail(s)) ELSE s

RECURSIVE TrimEnd(_)
TrimEnd(s) ==
    IF s # <<>> /\ s[Len(s)] \in WhiteSpace THEN TrimEnd(Upto(s, Len(s) - 1)) ELSE s

\* String.prototype.trim
Trim(s) == TrimEnd(TrimStart(s))

\* s.split(".")
RECURSIVE SplitDots(_)
SplitDots(s) ==
    LET d == FirstIdx(s, {"."})
    IN IF d = 0 THEN <<s>>
       ELSE <<Upto(s, d - 1)>> \o SplitDots(From(s, d + 1))

-----------------------------------------------------------------------------
(* new URL(input) without a base: TRUE when the constructor returns, FALSE   *)
(* when it throws.  The WHATWG URL parser restricted to the characters above.*)

SchemeChars == AsciiAlnum \cup {"+", "-", "."}
SpecialSchemes ==
    { <<"h", "t", "t", "p">>, <<"h", "t", "t", "p", "s">>, <<"f", "t", "p">>,
      <<"w", "s">>, <<"w", "s", "s">> }
ForbiddenHostChars == {" ", "#", "/", ":", "<", ">", "?", "@", "[", "\\", "]", "^", "|"}
ForbiddenDomainChars == ForbiddenHostChars \cup {"%"}
MaxPort == 2^16 - 1

\* the host's last label is a number, so the host is read as an IPv4 address
EndsInNumber(host) ==
    LET parts0 == SplitDots(host)
        n0 == Len(parts0)
        parts == IF parts0[n0] = <<>> THEN Upto(parts0, n0 - 1) ELSE parts0
    IN /\ parts # <<>>
       /\ LET last == parts[Len(parts)]
          IN last # <<>> /\ AllIn(last, AsciiDigit)

\* the IPv4 parser: at most 4 decimal parts, each but the last at most 255 and
\* the last below 256^(5 - n) (written with a division to stay in 32 bits)
Ipv4Ok(host) ==
    LET parts0 == SplitDots(host)
        n0 == Len(parts0)
        parts == IF parts0[n0] = <<>> /\ n0 > 1 THEN Upto(parts0, n0 - 1) ELSE parts0
        n == Len(parts)
    IN /\ n <= 4
       /\ \A i \in 1..n : parts[i] # <<>> /\ AllIn(parts[i], AsciiDigit)
       /\ \A i \in 1..(n - 1) : DecimalValue(parts[i]) <= 255
       /\ DecimalValue(parts[n]) \div (256 ^ (4 - n)) < 256

\* the host parser: a domain for a special scheme, an opaque host otherwise
HostOk(host, special) ==
    IF special
    THEN /\ \A i \in 1..Len(host) : host[i] \notin ForbiddenDomainChars
         /\ (EndsInNumber(host) => Ipv4Ok(host))
    ELSE \A i \in 1..Len(host) : host[i] \notin ForbiddenHostChars

PortOk(port) ==
    /\ AllIn(port, AsciiDigit)
    /\ (port # <<>> => DecimalValue(port) <= MaxPort)

\* authority, host and port states, on the text after the slashes
AuthorityOk(rest, special) ==
    LET slash == FirstIdx(rest, {"/"})
        auth == IF slash = 0 THEN rest ELSE Upto(rest, slash - 1)
        colon == FirstIdx(auth, {":"})
        host == IF colon = 0 THEN auth ELSE Upto(auth, colon - 1)
        port == IF colon = 0 THEN <<>> ELSE From(auth, colon + 1)
    IN /\ (host = <<>> => (colon = 0 /\ ~special))
       /\ HostOk(host, special)
       /\ PortOk(port)

RECURSIVE SkipSlashes(_)
SkipSlashes(s) ==
    IF s # <<>> /\ Head(s) = "/" THEN SkipSlashes(Tail(s)) ELSE s

UrlParses(input) ==
    LET s == Trim(input)
        colon == FirstIdx(s, {":"})
    IN /\ colon > 1
       /\ s[1] \in AsciiAlpha
       /\ \A i \in 2..(colon - 1) : s[i] \in SchemeChars
       /\ LET scheme == Upto(s, colon - 1)
              rest == From(s, colon + 1)
          IN IF scheme \in SpecialSchemes
             THEN AuthorityOk(SkipSlashes(rest), TRUE)
             ELSE IF Len(rest) >= 2 /\ rest[1] = "/" /\ rest[2] = "/"
                  THEN AuthorityOk(From(rest, 3), FALSE)
                  ELSE TRUE

-----------------------------------------------------------------------------
(* isValidUrl and formatUrl *)

LabelRepeatMax == 61
TldMinLen == 2

\* /^[a-zA-Z0-9][a-zA-Z0-9-]{0,61}[a-zA-Z0-9]?\.[a-zA-Z]{2,}/ matched from the
\* start of s; the result is the set of lengths of the possible matches
DomainPrefixMatches(s) ==
    { e \in 1..Len(s) :
        \E k \in 0..LabelRepeatMax, o \in 0..1 :
            LET dot == 2 + k + o
            IN /\ dot < e
               /\ s[1] \in AsciiAlnum
               /\ \A i \in 2..(1 + k) : s[i] \in AsciiAlnum \cup {"-"}
               /\ (o = 1 => s[1 + k + o] \in AsciiAlnum)
               /\ s[dot] = "."
               /\ e - dot >= TldMinLen
               /\ \A i \in (dot + 1)..e : s[i] \in AsciiAlpha }

\* domainPattern: the prefix pattern anchored at the end
domainPattern(s) == Len(s) \in DomainPrefixMatches(s)

\* urlPattern: the prefix pattern followed by (\/.*)?$
urlPattern(s) ==
    \E e \in DomainPrefixMatches(s) : e = Len(s) \/ s[e + 1] = "/"

isValidUrl(v) ==
    IF ~Truthy(v) \/ ~IsString(v) \/ Len(Trim(v.chars)) = 0 THEN FALSE
    ELSE LET trimmedText == Trim(v.chars)
         IN IF UrlParses(trimmedText) THEN TRUE
            ELSE IF UrlParses(HttpsPrefix \o trimmedText)
                 THEN domainPattern(trimmedText) \/ urlPattern(trimmedText)
                 ELSE FALSE

formatUrl_PrefixUnchecked(v) ==
    IF ~Truthy(v) \/ ~IsString(v) THEN JsString(<<>>)
    ELSE JsString(HttpsPrefix \o Trim(v.chars))

formatUrl_NoTrim(v) ==
    IF ~Truthy(v) \/ ~IsString(v) THEN JsString(<<>>)
    ELSE IF UrlParses(v.chars) THEN JsString(v.chars)
         ELSE LET formatted == HttpsPrefix \o Trim(v.chars)
              IN IF UrlParses(formatted) THEN JsString(formatted)
                 ELSE JsString(Trim(v.chars))

formatUrl(v) ==
    IF ~Truthy(v) \/ ~IsString(v) THEN JsString(<<>>)
    ELSE LET trimmedText == Trim(v.chars)
         IN IF UrlParses(trimmedText) THEN JsString(trimmedText)
            ELSE LET formatted == HttpsPrefix \o trimmedText
                 IN IF UrlParses(formatted) THEN JsString(formatted)
                    ELSE JsString(trimmedText)

-----------------------------------------------------------------------------
(* The inputs of the URL normalizer *)

TextsUpTo(n) == UNION { [1..k -> Alphabet] : k \in 0..n }

Labels == { <<"a">>, <<"a", "a">>, <<"a", "1">>, <<"a", "-">>, <<"1">>, <<"a", "-", "a">> }
Suffixes == { <<>>, <<"/">>, <<"/", "a">>, <<":", "1">>, <<" ">> }

RECURSIVE JoinDots(_)
JoinDots(ls) ==
    IF Len(ls) = 1 THEN ls[1] ELSE ls[1] \o <<".">> \o JoinDots(Tail(ls))

HostNames == { JoinDots(ls) : ls \in UNION { [1..k -> Labels] : k \in 1..MaxLabels } }

UrlTexts ==
    TextsUpTo(MaxLen)
      \cup { HttpsPrefix \o t : t \in TextsUpTo(MaxLen) }
      \cup { h \o x : h \in HostNames, x \in Suffixes }

UrlInputs == { JsString(t) : t \in UrlTexts } \cup NonStrings

-----------------------------------------------------------------------------
(* URL normalizer harness: the calls a caller makes on one text *)

CallIsValidUrl ==
    /\ urlPc = "input"
    /\ validOut' = isValidUrl(text)
    /\ urlPc' = "validated"
    /\ UNCHANGED <<text, formatOut, validFormatOut, formatTwiceOut>>
    /\ UNCHANGED <<genVars, appVars, fnVars, auxVars>>

CallFormatUrl ==
    /\ urlPc = "validated"
    /\ formatOut' = formatUrl(text)
    /\ urlPc' = "formatted"
    /\ UNCHANGED <<text, validOut, validFormatOut, formatTwiceOut>>
    /\ UNCHANGED <<genVars, appVars, fnVars, auxVars>>

CallIsValidUrlOnFormatted ==
    /\ urlPc = "formatted"
    /\ validFormatOut' = isValidUrl(formatOut)
    /\ urlPc' = "revalidated"
    /\ UNCHANGED <<text, validOut, formatOut, formatTwiceOut>>
    /\ UNCHANGED <<genVars, appVars, fnVars, auxVars>>

CallFormatUrlOnFormatted ==
    /\ urlPc = "revalidated"
    /\ formatTwiceOut' = formatUrl(formatOut)
    /\ urlPc' = "done"
    /\ UNCHANGED <<text, validOut, formatOut, validFormatOut>>
    /\ UNCHANGED <<genVars, appVars, fnVars, auxVars>>


-----------------------------------------------------------------------------
(* generateQRCode and generateQRCodeSVG *)

Styles == {"square", "rounded", "dots", "artistic"}
\* "" stands for an unset (falsy) color
Colors == {"", "#000000", "#ff0000"}
Backgrounds == {"", "#ffffff"}
\* "" stands for no foregroundImage
PatternImages == {"", "data:image/png;pattern"}
ValidText == <<"a", ".", "a", "a">>

DefaultMargin == 2
DefaultSize == 400
DefaultDark == "#000000"
DefaultLight == "#ffffff"

GenConfigs ==
    [ text : {JsString(<<>>), JsString(ValidText)} \cup NonStrings,
      size : 0..MaxSize,
      margin : 0..MaxMargin,
      foregroundColor : Colors,
      backgroundColor : Backgrounds,
      style : Styles,
      foregroundImage : PatternImages ]

\* rasters: the operations that produced the pixels, and whether the canvas
\* re-encoded them (canvas.toDataURL)
NoRaster == [ops |-> <<>>, reencoded |-> FALSE]
BaseRaster == [ops |-> <<"encode">>, reencoded |-> FALSE]
CanvasRaster(ops) == [ops |-> <<"encode">> \o ops, reencoded |-> TRUE]

\* markup: the rewrite applied to the encoder's SVG string
NoSvg == [encoded |-> FALSE, rewrite |-> "none"]
BaseSvg == [encoded |-> TRUE, rewrite |-> "none"]
RewrittenSvg(r) == [encoded |-> TRUE, rewrite |-> r]

\* !config.text || typeof config.text !== 'string'
InvalidTextInput_NoTypeCheck(c) == ~Truthy(c.text)

InvalidTextInput(c) == ~Truthy(c.text) \/ ~IsString(c.text)

\* the options object handed to the encoder; x || d is d for a falsy x
EncoderOptions(c) ==
    [ errorCorrectionLevel |-> "M",
      margin |-> IF c.margin # 0 THEN c.margin ELSE DefaultMargin,
      dark |-> IF c.foregroundColor # "" THEN c.foregroundColor ELSE DefaultDark,
      light |-> IF c.backgroundColor # "" THEN c.backgroundColor ELSE DefaultLight,
      width |-> IF c.size # 0 THEN c.size ELSE DefaultSize ]

\* (config.style && config.style !== 'square') || config.foregroundImage
NeedsStyling_IgnoresSquare(c) == c.style # "" \/ c.foregroundImage # ""

NeedsStyling(c) ==
    (c.style # "" /\ c.style # "square") \/ c.foregroundImage # ""

\* the canvas operations of applyRegularStyleEffects
RegularStyleOps(style) ==
    CASE style = "rounded" -> <<"rounded">>
      [] style = "dots" -> <<"dots">>
      [] style = "artistic" -> <<"artistic">>
      [] OTHER -> <<>>

\* the canvas operations of the style switch that follows the image pattern
PatternStyleOps(style) ==
    CASE style = "rounded" -> <<"rounded">>
      [] style = "artistic" -> <<"artistic">>
      [] OTHER -> <<>>

RasterResolve(raster) ==
    /\ rPc' = "resolved"
    /\ rResult' = raster

\* generateQRCode up to its first await
GenerateQRCodeCall ==
    /\ rPc = "idle"
    /\ IF InvalidTextInput(genConfig)
       THEN /\ rPc' = "rejected"
            /\ rError' = "Failed to generate QR code: Invalid text input for QR code generation"
            /\ UNCHANGED encoderCalls
       ELSE /\ rPc' = "encoding"
            /\ encoderCalls' = encoderCalls \cup
                 { [api |-> "toDataURL", text |-> genConfig.text,
                    options |-> EncoderOptions(genConfig)] }
            /\ UNCHANGED rError
    /\ UNCHANGED <<genConfig, rResult, canvas, sPc, sError, sResult, stepsDone>>
    /\ UNCHANGED <<urlVars, appVars, fnVars, auxVars>>

\* QRCode.toDataURL rejects
RasterEncoderRejects ==
    /\ rPc = "encoding"
    /\ rPc' = "rejected"
    /\ rError' = "Failed to generate QR code: encoder error"
    /\ UNCHANGED <<genConfig, rResult, canvas, sPc, sError, sResult,
                   encoderCalls, stepsDone>>
    /\ UNCHANGED <<urlVars, appVars, fnVars, auxVars>>

\* QRCode.toDataURL resolves; applyArtisticEffects is entered when styling is
\* needed and runs up to img.src = dataUrl
RasterEncoderResolves ==
    /\ rPc = "encoding"
    /\ IF NeedsStyling(genConfig)
       THEN /\ stepsDone' = stepsDone \cup {"decode"}
            /\ \E setup \in {"ok", "throws"} :
                 IF setup = "ok"
                 THEN rPc' = "decoding" /\ UNCHANGED rResult
                 ELSE RasterResolve(BaseRaster)
       ELSE /\ RasterResolve(BaseRaster)
            /\ UNCHANGED stepsDone
    /\ UNCHANGED <<genConfig, rError, canvas, sPc, sError, sResult, encoderCalls>>
    /\ UNCHANGED <<urlVars, appVars, fnVars, auxVars>>

\* img.onerror of applyArtisticEffects
BaseImageOnError ==
    /\ rPc = "decoding"
    /\ RasterResolve(BaseRaster)
    /\ UNCHANGED <<genConfig, rError, canvas, sPc, sError, sResult,
                   encoderCalls, stepsDone>>
    /\ UNCHANGED <<urlVars, appVars, fnVars, auxVars>>

\* img.onload of applyArtisticEffects
BaseImageOnLoad ==
    /\ rPc = "decoding"
    /\ \E outcome \in {"noContext", "drawThrows", "drawn"} :
         IF outcome # "drawn"
         THEN /\ RasterResolve(BaseRaster)
              /\ stepsDone' = stepsDone \cup {"canvas"}
              /\ UNCHANGED canvas
         ELSE IF genConfig.foregroundImage # ""
              THEN /\ rPc' = "patternLoading"
                   /\ canvas' = <<"draw">>
                   /\ stepsDone' = stepsDone \cup {"canvas", "pattern"}
                   /\ UNCHANGED rResult
              ELSE /\ \E effects \in {"ok", "styleThrows", "encodeThrows"} :
                        /\ canvas' = IF effects = "styleThrows" THEN <<"draw">>
                                     ELSE <<"draw">> \o RegularStyleOps(genConfig.style)
                        /\ IF effects = "ok"
                           THEN RasterResolve(CanvasRaster(canvas'))
                           ELSE RasterResolve(BaseRaster)
                   /\ stepsDone' = stepsDone \cup {"canvas", "style"}
    /\ UNCHANGED <<genConfig, rError, sPc, sError, sResult, encoderCalls>>
    /\ UNCHANGED <<urlVars, appVars, fnVars, auxVars>>

\* patternImg.onerror of applyImagePattern
PatternImageOnError ==
    /\ rPc = "patternLoading"
    /\ rPc' = "patternFailed"
    /\ UNCHANGED <<genConfig, rError, rResult, canvas, sPc, sError, sResult,
                   encoderCalls, stepsDone>>
    /\ UNCHANGED <<urlVars, appVars, fnVars, auxVars>>

\* patternImg.onload of applyImagePattern
PatternImageOnLoad ==
    /\ rPc = "patternLoading"
    /\ \E outcome \in {"readThrows", "noPatternContext", "tileThrows",
                       "stampThrows", "stamped"} :
         CASE outcome = "stamped" ->
                /\ canvas' = canvas \o <<"clear", "stamp">>
                /\ rPc' = "patternApplied"
           [] outcome = "stampThrows" ->
                /\ canvas' = canvas \o <<"clear">>
                /\ rPc' = "patternFailed"
           [] OTHER ->
                /\ UNCHANGED canvas
                /\ rPc' = "patternFailed"
    /\ UNCHANGED <<genConfig, rError, rResult, sPc, sError, sResult,
                   encoderCalls, stepsDone>>
    /\ UNCHANGED <<urlVars, appVars, fnVars, auxVars>>

\* the .then handler on applyImagePattern: the style switch, then resolve
PatternThenHandler ==
    /\ rPc = "patternApplied"
    /\ \E effects \in {"ok", "styleThrows", "encodeThrows"} :
         /\ canvas' = IF effects = "styleThrows" THEN canvas
                      ELSE canvas \o PatternStyleOps(genConfig.style)
         /\ IF effects = "ok"
            THEN RasterResolve(CanvasRaster(canvas'))
            ELSE rPc' = "patternFailed" /\ UNCHANGED rResult
    /\ stepsDone' = stepsDone \cup {"style"}
    /\ UNCHANGED <<genConfig, rError, sPc, sError, sResult, encoderCalls>>
    /\ UNCHANGED <<urlVars, appVars, fnVars, auxVars>>

\* the .catch handler on applyImagePattern(...).then(...): an exception thrown
\* here is caught by nothing, and the promise of applyArtisticEffects is never
\* settled
PatternCatchHandler ==
    /\ rPc = "patternFailed"
    /\ \E effects \in {"ok", "styleThrows", "encodeThrows"} :
         /\ canvas' = IF effects = "styleThrows" THEN canvas
                      ELSE canvas \o RegularStyleOps(genConfig.style)
         /\ IF effects = "ok"
            THEN RasterResolve(CanvasRaster(canvas'))
            ELSE rPc' = "abandoned" /\ UNCHANGED rResult
    /\ stepsDone' = stepsDone \cup {"fallback"}
    /\ UNCHANGED <<genConfig, rError, sPc, sError, sResult, encoderCalls>>
    /\ UNCHANGED <<urlVars, appVars, fnVars, auxVars>>

\* generateQRCodeSVG up to its first await
GenerateQRCodeSVGCall ==
    /\ sPc = "idle"
    /\ IF InvalidTextInput(genConfig)
       THEN /\ sPc' = "rejected"
            /\ sError' = "Failed to generate QR code SVG: Invalid text input for QR code SVG generation"
            /\ UNCHANGED encoderCalls
       ELSE /\ sPc' = "encoding"
            /\ encoderCalls' = encoderCalls \cup
                 { [api |-> "toString", text |-> genConfig.text,
                    options |-> EncoderOptions(genConfig)] }
            /\ UNCHANGED sError
    /\ UNCHANGED <<genConfig, rPc, rError, rResult, canvas, sResult, stepsDone>>
    /\ UNCHANGED <<urlVars, appVars, fnVars, auxVars>>

\* QRCode.toString rejects
SvgEncoderRejects ==
    /\ sPc = "encoding"
    /\ sPc' = "rejected"
    /\ sError' = "Failed to generate QR code SVG: encoder error"
    /\ UNCHANGED <<genConfig, rPc, rError, rResult, canvas, sResult,
                   encoderCalls, stepsDone>>
    /\ UNCHANGED <<urlVars, appVars, fnVars, auxVars>>

\* QRCode.toString resolves; applySVGArtisticEffects runs when styling is
\* needed and returns its input when the rewrite throws
SvgEncoderResolves ==
    /\ sPc = "encoding"
    /\ sPc' = "resolved"
    /\ IF NeedsStyling(genConfig)
       THEN /\ stepsDone' = stepsDone \cup {"rewrite"}
            /\ \E rewrite \in {"ok", "throws"} :
                 sResult' =
                    IF rewrite = "throws" THEN BaseSvg
                    ELSE IF genConfig.foregroundImage # ""
                         THEN RewrittenSvg("pattern")
                         ELSE RewrittenSvg(genConfig.style)
       ELSE /\ sResult' = BaseSvg
            /\ UNCHANGED stepsDone
    /\ UNCHANGED <<genConfig, rPc, rError, rResult, canvas, sError, encoderCalls>>
    /\ UNCHANGED <<urlVars, appVars, fnVars, auxVars>>


-----------------------------------------------------------------------------
(* downloadFile, generatePDF and downloadQRCode *)

Formats == {"png", "svg", "pdf"}

\* data URLs, blob URLs and markup strings: what they hold, the generateQR
\* call and the configuration they come from; EmptyString is ''
InitialConfig ==
    [ text |-> <<>>, size |-> 400, foregroundColor |-> "#000000",
      backgroundColor |-> "#ffffff", style |-> "square", margin |-> 2 ]
EmptyString == [kind |-> "", seq |-> 0, config |-> InitialConfig]
RasterArtifact(n, cfg) == [kind |-> "png", seq |-> n, config |-> cfg]
SvgArtifact(n, cfg) == [kind |-> "svg", seq |-> n, config |-> cfg]
\* URL.createObjectURL(new Blob([qrSvg]))
BlobUrl(svg) == [kind |-> "blob", seq |-> svg.seq, config |-> svg.config]
\* pdf.output('datauristring') of a document holding the image
PdfDataUri(dataUrl) == [kind |-> "pdf", seq |-> dataUrl.seq, config |-> dataUrl.config]

\* downloadFile: throws on a missing parameter, and when a DOM call throws;
\* otherwise the link is clicked and the file save is triggered
DownloadFileOutcomes(dataUrl, filename, format) ==
    IF dataUrl = EmptyString \/ filename = ""
    THEN { [ok |-> FALSE, files |-> {}] }
    ELSE { [ok |-> TRUE,
            files |-> { [name |-> filename, ext |-> format, href |-> dataUrl.kind] }],
           [ok |-> FALSE, files |-> {}] }

\* downloadQRCode up to its first await or its return
DownloadQRCodeCall_NoParameterCheck(dataUrl, filename, format) ==
    IF format = "pdf"
    THEN { [pc |-> "importing", files |-> {}, cause |-> ""] }
    ELSE { [pc |-> "exportResolved",
            files |-> { [name |-> filename, ext |-> format, href |-> dataUrl.kind] },
            cause |-> ""] }

DownloadQRCodeCall(dataUrl, filename, format) ==
    IF dataUrl = EmptyString \/ filename = ""
    THEN { [pc |-> "exportRejected", files |-> {}, cause |-> "missing"] }
    ELSE IF format = "pdf"
         THEN { [pc |-> "importing", files |-> {}, cause |-> ""] }
         ELSE { [pc |-> IF o.ok THEN "exportResolved" ELSE "exportRejected",
                 files |-> o.files,
                 cause |-> IF o.ok THEN "" ELSE "save"] :
                  o \in DownloadFileOutcomes(dataUrl, filename, format) }

\* the message of the error downloadQRCode rejects with
ExportErrorMessage(cause) ==
    CASE cause = "missing" ->
           "Failed to download QR code: Missing required parameters for download"
      [] cause = "pdf" -> "Failed to download QR code: Failed to generate PDF"
      [] OTHER -> "Failed to download QR code: Failed to download file"

FreeSlot ==
    [ id |-> 0, caller |-> "none", pc |-> "free", format |-> "png",
      dataUrl |-> EmptyString,
      filename |-> "", blob |-> 0, config |-> InitialConfig, saved |-> FALSE,
      cause |-> "", history |-> "" ]

Event(op) == [op |-> op, rec |-> FreeSlot]
EventOf(op, rec) == [op |-> op, rec |-> rec]

\* `qr-code-${Date.now()}`
TimestampedName == "qr-code-1700000000000"

\* a download slot filled by a call of downloadQRCode
CallSlot(id, caller, o, dataUrl, filename, format, blob, cfg) ==
    [ id |-> id, caller |-> caller, pc |-> o.pc, format |-> format,
      dataUrl |-> dataUrl,
      filename |-> filename, blob |-> blob, config |-> cfg,
      saved |-> o.files # {}, cause |-> o.cause, history |-> "" ]

\* a caller other than handleDownload calls the exported downloadQRCode
DownloadQRCodeDirect ==
    /\ started < MaxDownloads
    /\ \E dataUrl \in {EmptyString, RasterArtifact(0, InitialConfig)},
          filename \in {"", TimestampedName}, format \in Formats :
         \E o \in DownloadQRCodeCall(dataUrl, filename, format) :
            /\ downloads' = [downloads EXCEPT ![started + 1] =
                   CallSlot(started + 1, "direct", o, dataUrl, filename, format, 0, InitialConfig)]
            /\ savedFiles' = savedFiles \cup o.files
    /\ started' = started + 1
    /\ lastEvent' = Event("step")
    /\ UNCHANGED <<wizardVars, artifactVars, runVars, historyCalls, blobs,
                   revokeTimers, revokedBlobs, error>>
    /\ UNCHANGED <<urlVars, genVars, fnVars, auxVars>>

\* the promise of a direct call settles
DirectCallSettles(d) ==
    /\ downloads[d].caller = "direct"
    /\ downloads[d].pc \in {"exportResolved", "exportRejected"}
    /\ downloads' = [downloads EXCEPT ![d] = FreeSlot]
    /\ lastEvent' = EventOf(IF downloads[d].pc = "exportResolved"
                            THEN "downloadQRCode:resolved"
                            ELSE "downloadQRCode:rejected", downloads[d])
    /\ UNCHANGED <<wizardVars, artifactVars, runVars, started, savedFiles,
                   historyCalls, blobs, revokeTimers, revokedBlobs, error>>
    /\ UNCHANGED <<urlVars, genVars, fnVars, auxVars>>

\* generatePDF: the dynamic import of jspdf settles
PdfImportSettles(d) ==
    /\ downloads[d].pc = "importing"
    /\ \E ok \in BOOLEAN :
         downloads' = [downloads EXCEPT
             ![d].pc = IF ok THEN "loadingImage" ELSE "exportRejected",
             ![d].cause = IF ok THEN "" ELSE "pdf"]
    /\ lastEvent' = Event("step")
    /\ UNCHANGED <<wizardVars, artifactVars, runVars, started, savedFiles,
                   historyCalls, blobs, revokeTimers, revokedBlobs, error>>
    /\ UNCHANGED <<urlVars, genVars, fnVars, auxVars>>

\* generatePDF: img.onerror
PdfImageOnError(d) ==
    /\ downloads[d].pc = "loadingImage"
    /\ downloads' = [downloads EXCEPT ![d].pc = "exportRejected", ![d].cause = "pdf"]
    /\ lastEvent' = Event("step")
    /\ UNCHANGED <<wizardVars, artifactVars, runVars, started, savedFiles,
                   historyCalls, blobs, revokeTimers, revokedBlobs, error>>
    /\ UNCHANGED <<urlVars, genVars, fnVars, auxVars>>

\* generatePDF: img.onload builds the document (which may throw); then
\* downloadQRCode resumes and calls downloadFile with the document
PdfImageOnLoad(d) ==
    /\ downloads[d].pc = "loadingImage"
    /\ \E built \in BOOLEAN :
         IF ~built
         THEN /\ downloads' = [downloads EXCEPT ![d].pc = "exportRejected",
                                                ![d].cause = "pdf"]
              /\ UNCHANGED savedFiles
         ELSE \E o \in DownloadFileOutcomes(PdfDataUri(downloads[d].dataUrl),
                                            downloads[d].filename, "pdf") :
                /\ downloads' = [downloads EXCEPT
                       ![d].pc = IF o.ok THEN "exportResolved" ELSE "exportRejected",
                       ![d].cause = IF o.ok THEN "" ELSE "save",
                       ![d].saved = o.files # {}]
                /\ savedFiles' = savedFiles \cup o.files
    /\ lastEvent' = Event("step")
    /\ UNCHANGED <<wizardVars, artifactVars, runVars, started,
                   historyCalls, blobs, revokeTimers, revokedBlobs, error>>
    /\ UNCHANGED <<urlVars, genVars, fnVars, auxVars>>

-----------------------------------------------------------------------------
(* generatePDF: the placement of the image on the page *)

\* JS numbers: binary floating point, m * 2^e with a significand of
\* MantissaBits bits, every operation rounded to nearest, ties to even
Pow2(k) == 2 ^ k
\* the exponents of the numbers of a placement, which lie between 1/8 and 32
Exponents == (-MantissaBits - 3)..MantissaBits
Zero == [m |-> 0, e |-> 0]

\* the number nearest to n / d, for n >= 0 and d > 0
Round(n, d) ==
    IF n = 0 THEN Zero
    ELSE LET Num(e) == IF e < 0 THEN n * Pow2(-e) ELSE n
             Den(e) == IF e > 0 THEN d * Pow2(e) ELSE d
             e == CHOOSE k \in Exponents :
                    /\ Pow2(MantissaBits - 1) * Den(k) <= Num(k)
                    /\ Num(k) < Pow2(MantissaBits) * Den(k)
             m0 == Num(e) \div Den(e)
             rem == Num(e) - m0 * Den(e)
             m == IF 2 * rem > Den(e) \/ (2 * rem = Den(e) /\ m0 % 2 = 1)
                  THEN m0 + 1 ELSE m0
         IN IF m = Pow2(MantissaBits)
            THEN [m |-> Pow2(MantissaBits - 1), e |-> e + 1]
            ELSE [m |-> m, e |-> e]

\* numerator and denominator of the exact value of a number
NumOf(a) == IF a.e > 0 THEN a.m * Pow2(a.e) ELSE a.m
DenOf(a) == IF a.e < 0 THEN Pow2(-a.e) ELSE 1

FromInt(k) == Round(k, 1)
FDiv(a, b) == Round(NumOf(a) * DenOf(b), DenOf(a) * NumOf(b))
FMul(a, b) == Round(NumOf(a) * NumOf(b), DenOf(a) * DenOf(b))
\* a - b for a >= b
FSub(a, b) == Round(NumOf(a) * DenOf(b) - NumOf(b) * DenOf(a), DenOf(a) * DenOf(b))
FGt(a, b) == NumOf(a) * DenOf(b) > NumOf(b) * DenOf(a)

\* 10mm margin on each side
PageMargins == FromInt(20)

\* the arguments x, y, imgWidth, imgHeight of pdf.addImage
Placement_NoHeightLimit(img, page) ==
    LET imgAspect == FDiv(FromInt(img.width), FromInt(img.height))
        maxWidth == FSub(FromInt(page.width), PageMargins)
        imgWidth == maxWidth
        imgHeight == FDiv(maxWidth, imgAspect)
    IN [ x |-> FDiv(FSub(FromInt(page.width), imgWidth), FromInt(2)),
         y |-> Zero,
         imgWidth |-> imgWidth, imgHeight |-> imgHeight ]

Placement(img, page) ==
    LET imgAspect == FDiv(FromInt(img.width), FromInt(img.height))
        maxWidth == FSub(FromInt(page.width), PageMargins)
        maxHeight == FSub(FromInt(page.height), PageMargins)
        tooHigh == FGt(FDiv(maxWidth, imgAspect), maxHeight)
        imgWidth == IF tooHigh THEN FMul(maxHeight, imgAspect) ELSE maxWidth
        imgHeight == IF tooHigh THEN maxHeight ELSE FDiv(maxWidth, imgAspect)
    IN [ x |-> FDiv(FSub(FromInt(page.width), imgWidth), FromInt(2)),
         y |-> FDiv(FSub(FromInt(page.height), imgHeight), FromInt(2)),
         imgWidth |-> imgWidth, imgHeight |-> imgHeight ]

\* decoded images and pages: an encoder's PNG has positive dimensions
PdfImages == [width : 1..MaxPixels, height : 1..MaxPixels]
PdfPages == [width : 21..(20 + MaxPageExtent), height : 21..(20 + MaxPageExtent)]

\* img.onload of generatePDF: new jsPDF(), the placement, pdf.addImage and
\* pdf.output; the promise resolves
PdfImagePlaced ==
    /\ pdfPc = "loaded"
    /\ pdfPc' = "resolved"
    /\ pdfDoc' = [pages |-> 1, images |-> <<Placement(pdfImage, pdfPage)>>]
    /\ UNCHANGED <<pdfImage, pdfPage>>
    /\ UNCHANGED <<urlVars, genVars, appVars, svgVars, dotsVars, auxVars>>

\* img.onload of generatePDF when a jsPDF call throws: the promise rejects
PdfImagePlacementThrows ==
    /\ pdfPc = "loaded"
    /\ pdfPc' = "rejected"
    /\ \E added \in BOOLEAN :
         pdfDoc' = [pages |-> 1,
                    images |-> IF added THEN <<Placement(pdfImage, pdfPage)>>
                               ELSE <<>>]
    /\ UNCHANGED <<pdfImage, pdfPage>>
    /\ UNCHANGED <<urlVars, genVars, appVars, svgVars, dotsVars, auxVars>>

-----------------------------------------------------------------------------
(* applySVGArtisticEffects: the ids of the definitions it injects *)

\* Math.random(): a number in [0, 1), whatever the engine's generator gives
RandomValues == {"0", "0.125", "0.5"}

\* Math.random().toString(36).substr(2, 9): the base-36 digits after "0."
\* (0 prints as "0", which has none)
Base36Suffix(v) ==
    CASE v = "0" -> ""
      [] v = "0.125" -> "4i"
      [] v = "0.5" -> "i"

RandomId(prefix, v) == prefix \o Base36Suffix(v)

\* config.foregroundImage set: one pattern definition, and an early return
SvgImagePatternInjected ==
    /\ Len(svgOut) < MaxSvgCalls
    /\ \E style \in Styles, v \in RandomValues :
         svgOut' = Append(svgOut,
                     [style |-> style, foregroundImage |-> TRUE,
                      ids |-> {RandomId("qr-image-pattern-", v)}])
    /\ UNCHANGED <<urlVars, genVars, appVars, pdfVars, dotsVars, auxVars>>

\* no foregroundImage: the switch on the style, of which 'artistic' injects a
\* gradient and a shadow filter
SvgStyleEffects ==
    /\ Len(svgOut) < MaxSvgCalls
    /\ \E style \in Styles, v1, v2 \in RandomValues :
         svgOut' = Append(svgOut,
                     [style |-> style, foregroundImage |-> FALSE,
                      ids |-> IF style = "artistic"
                              THEN {RandomId("qr-gradient-", v1),
                                    RandomId("qr-shadow-", v2)}
                              ELSE {}])
    /\ UNCHANGED <<urlVars, genVars, appVars, pdfVars, dotsVars, auxVars>>

-----------------------------------------------------------------------------
(* applyDotStyle *)

Max(a, b) == IF a >= b THEN a ELSE b

\* Math.max(3, Math.floor(width / 50))
dotSize(width) == Max(3, width \div 50)
spacing(width) == dotSize(width) * 2

\* pixels of the image: black, and the two greys on either side of the
\* brightness limit
Pixels == { [r |-> 0, g |-> 0, b |-> 0],
            [r |-> 127, g |-> 128, b |-> 128],
            [r |-> 128, g |-> 128, b |-> 128] }

\* brightness = (r + g + b) / 3; brightness < 128
IsDark(pixel) == pixel.r + pixel.g + pixel.b < 3 * 128

\* the values x and y take in the loops
GridSteps(extent, width) ==
    { k * spacing(width) : k \in 0..((extent - 1) \div spacing(width)) }

\* the pixels of a cell of the grid that the model holds: the one at its
\* corner (x, y) and the one at its center, where the image has it
CellCenter(x, y, width) == <<x + dotSize(width), y + dotSize(width)>>
CellPixels(width, height) ==
    LET corners == GridSteps(width, width) \X GridSteps(height, width)
        centers == { CellCenter(c[1], c[2], width) : c \in corners }
    IN { c \in corners \cup centers : c[1] < width /\ c[2] < height }

\* getImageData, clearRect, and fillRect with the background colour
ApplyDotStyleBegins ==
    /\ dotsPc = "called"
    /\ dotsPc' = "looping"
    /\ dotsAt' = <<0, 0>>
    /\ dotsCircles' = {}
    /\ UNCHANGED <<dotsWidth, dotsHeight, dotsData>>
    /\ UNCHANGED <<urlVars, genVars, appVars, pdfVars, svgVars, auxVars>>

\* one pass of the inner loop, and the loop steps that follow it
DotCellVisited ==
    /\ dotsPc = "looping"
    /\ LET x == dotsAt[1]
           y == dotsAt[2]
           pixelIndex == (y * dotsWidth + x) * 4
           pixel == dotsData[pixelIndex \div 4]
           size == dotSize(dotsWidth)
       IN /\ dotsCircles' =
                IF IsDark(pixel)
                THEN dotsCircles \cup
                       { [cx2 |-> 2 * x + size, cy2 |-> 2 * y + size,
                          r2 |-> size, fill |-> "foregroundColor"] }
                ELSE dotsCircles
          /\ IF y + spacing(dotsWidth) < dotsHeight
             THEN dotsAt' = <<x, y + spacing(dotsWidth)>> /\ UNCHANGED dotsPc
             ELSE IF x + spacing(dotsWidth) < dotsWidth
             THEN dotsAt' = <<x + spacing(dotsWidth), 0>> /\ UNCHANGED dotsPc
             ELSE dotsAt' = <<x + spacing(dotsWidth), 0>> /\ dotsPc' = "done"
    /\ UNCHANGED <<dotsWidth, dotsHeight, dotsData>>
    /\ UNCHANGED <<urlVars, genVars, appVars, pdfVars, svgVars, auxVars>>

-----------------------------------------------------------------------------
(* The QRGenerator component *)

Steps == {"url", "style", "customize", "preview"}
AppUrls == { <<>>, <<"a", ".", "a", "a">>, <<" ", "a", ":">> }
AppStyles == {"square", "dots"}
AppColors == {"#000000", "#ff0000"}

FreeRun == [pc |-> "free", config |-> InitialConfig]

\* the URL input changes
SetUrl(u) ==
    /\ currentStep = "url"
    /\ u # url
    /\ url' = u
    /\ lastEvent' = Event("step")
    /\ UNCHANGED <<currentStep, config, artifactVars, runVars, downloadVars, error>>
    /\ UNCHANGED <<urlVars, genVars, fnVars, auxVars>>

handleUrlSubmit_Unvalidated ==
    /\ currentStep = "url"
    /\ config' = [config EXCEPT !.text = formatUrl(JsString(Trim(url))).chars]
    /\ currentStep' = "style"
    /\ lastEvent' = Event("step")
    /\ UNCHANGED <<url, artifactVars, runVars, downloadVars, error>>
    /\ UNCHANGED <<urlVars, genVars, fnVars, auxVars>>

handleUrlSubmit ==
    /\ currentStep = "url"
    /\ LET trimmedUrl == Trim(url)
           isValid == Len(trimmedUrl) > 0 /\ isValidUrl(JsString(trimmedUrl))
       IN IF isValid
          THEN /\ config' = [config EXCEPT !.text = formatUrl(JsString(trimmedUrl)).chars]
               /\ currentStep' = "style"
          ELSE UNCHANGED <<config, currentStep>>
    /\ lastEvent' = Event("step")
    /\ UNCHANGED <<url, artifactVars, runVars, downloadVars, error>>
    /\ UNCHANGED <<urlVars, genVars, fnVars, auxVars>>

handleStyleSelect(style) ==
    /\ currentStep = "style"
    /\ config' = [config EXCEPT !.style = style]
    /\ lastEvent' = Event("step")
    /\ UNCHANGED <<currentStep, url, artifactVars, runVars, downloadVars, error>>
    /\ UNCHANGED <<urlVars, genVars, fnVars, auxVars>>

handleStyleNext ==
    /\ currentStep = "style"
    /\ currentStep' = "customize"
    /\ lastEvent' = Event("step")
    /\ UNCHANGED <<url, config, artifactVars, runVars, downloadVars, error>>
    /\ UNCHANGED <<urlVars, genVars, fnVars, auxVars>>

\* the colors of a template: the defaults when metadata.colors does not parse
TemplateColors ==
    { [foreground |-> "#000000", background |-> "#ffffff"],
      [foreground |-> "#ff0000", background |-> "#ffffff"] }

handleTemplateSelect(colors) ==
    /\ currentStep = "customize"
    /\ config' = [config EXCEPT !.foregroundColor = colors.foreground,
                                !.backgroundColor = colors.background]
    /\ lastEvent' = Event("step")
    /\ UNCHANGED <<currentStep, url, artifactVars, runVars, downloadVars, error>>
    /\ UNCHANGED <<urlVars, genVars, fnVars, auxVars>>

\* handleColorChange('foreground', color)
handleColorChange(color) ==
    /\ currentStep = "customize"
    /\ config' = [config EXCEPT !.foregroundColor = color]
    /\ lastEvent' = Event("step")
    /\ UNCHANGED <<currentStep, url, artifactVars, runVars, downloadVars, error>>
    /\ UNCHANGED <<urlVars, genVars, fnVars, auxVars>>

\* generateQR up to its await: both generators are called
handleGeneratePreview ==
    /\ currentStep = "customize"
    /\ requested < MaxRuns
    /\ IF config.text # <<>> /\ isValidUrl(JsString(config.text))
       THEN /\ currentStep' = "preview"
            /\ isGenerating' = TRUE
            /\ error' = ""
            /\ requested' = requested + 1
            /\ runs' = [runs EXCEPT ![requested + 1] =
                          [pc |-> "awaiting", config |-> config]]
       ELSE UNCHANGED <<currentStep, isGenerating, error, requested, runs>>
    /\ lastEvent' = Event("step")
    /\ UNCHANGED <<url, config, artifactVars, downloadVars>>
    /\ UNCHANGED <<urlVars, genVars, fnVars, auxVars>>

\* generateQR resumes after Promise.all resolved: both generators resolved
GenerateQRSucceeds_RasterOnly(r) ==
    /\ runs[r].pc = "awaiting"
    /\ qrDataUrl' = RasterArtifact(r, runs[r].config)
    /\ isGenerating' = FALSE
    /\ runs' = [runs EXCEPT ![r] = FreeRun]
    /\ lastEvent' = Event("generateQR:succeeded")
    /\ UNCHANGED <<wizardVars, qrSvg, requested, downloadVars, error>>
    /\ UNCHANGED <<urlVars, genVars, fnVars, auxVars>>

GenerateQRSucceeds(r) ==
    /\ runs[r].pc = "awaiting"
    /\ qrDataUrl' = RasterArtifact(r, runs[r].config)
    /\ qrSvg' = SvgArtifact(r, runs[r].config)
    /\ isGenerating' = FALSE
    /\ runs' = [runs EXCEPT ![r] = FreeRun]
    /\ lastEvent' = Event("generateQR:succeeded")
    /\ UNCHANGED <<wizardVars, requested, downloadVars, error>>
    /\ UNCHANGED <<urlVars, genVars, fnVars, auxVars>>

\* the message of the error a generator rejects with
GeneratorErrorMessage(generator) ==
    IF generator = "generateQRCode"
    THEN "Failed to generate QR code: encoder error"
    ELSE "Failed to generate QR code SVG: encoder error"

\* generateQR resumes after Promise.all rejected, which it does as soon as one
\* generator rejects: catch, then finally
GenerateQRFails_KeepsArtifacts(r) ==
    /\ runs[r].pc = "awaiting"
    /\ \E generator \in {"generateQRCode", "generateQRCodeSVG"} :
         error' = GeneratorErrorMessage(generator)
    /\ isGenerating' = FALSE
    /\ runs' = [runs EXCEPT ![r] = FreeRun]
    /\ lastEvent' = Event("generateQR:failed")
    /\ UNCHANGED <<wizardVars, artifactVars, requested, downloadVars>>
    /\ UNCHANGED <<urlVars, genVars, fnVars, auxVars>>

GenerateQRFails(r) ==
    /\ runs[r].pc = "awaiting"
    /\ \E generator \in {"generateQRCode", "generateQRCodeSVG"} :
         error' = GeneratorErrorMessage(generator)
    /\ qrDataUrl' = EmptyString
    /\ qrSvg' = EmptyString
    /\ isGenerating' = FALSE
    /\ runs' = [runs EXCEPT ![r] = FreeRun]
    /\ lastEvent' = Event("generateQR:failed")
    /\ UNCHANGED <<wizardVars, requested, downloadVars>>
    /\ UNCHANGED <<urlVars, genVars, fnVars, auxVars>>

handleBack ==
    /\ currentStep # "url"
    /\ currentStep' = CASE currentStep = "style" -> "url"
                        [] currentStep = "customize" -> "style"
                        [] currentStep = "preview" -> "customize"
    /\ lastEvent' = Event("step")
    /\ UNCHANGED <<url, config, artifactVars, runVars, downloadVars, error>>
    /\ UNCHANGED <<urlVars, genVars, fnVars, auxVars>>

\* the onClick of 'Create Another QR Code'
CreateAnother ==
    /\ currentStep = "preview"
    /\ currentStep' = "url"
    /\ url' = <<>>
    /\ qrDataUrl' = EmptyString
    /\ qrSvg' = EmptyString
    /\ error' = ""
    /\ config' = InitialConfig
    /\ lastEvent' = Event("step")
    /\ UNCHANGED <<runVars, downloadVars>>
    /\ UNCHANGED <<urlVars, genVars, fnVars, auxVars>>

\* format === 'svg' && qrSvg
UseBlob_Never(format) == FALSE

UseBlob(format) == format = "svg" /\ qrSvg # EmptyString

\* handleDownload up to its first await: the blob for an SVG, then the call of
\* downloadQRCode
handleDownload(format) ==
    /\ currentStep = "preview"
    /\ started < MaxDownloads
    /\ IF qrDataUrl = EmptyString /\ qrSvg = EmptyString
       THEN /\ lastEvent' = Event("handleDownload:skipped")
            /\ UNCHANGED downloadVars
       ELSE LET d == started + 1
                useBlob == UseBlob(format)
                downloadUrl == IF useBlob THEN BlobUrl(qrSvg) ELSE qrDataUrl
            IN /\ \E o \in DownloadQRCodeCall(downloadUrl, TimestampedName, format) :
                    /\ downloads' = [downloads EXCEPT ![d] =
                          CallSlot(d, "handleDownload", o, downloadUrl,
                                   TimestampedName, format,
                                   IF useBlob THEN d ELSE 0, config)]
                    /\ savedFiles' = savedFiles \cup o.files
               /\ blobs' = IF useBlob THEN blobs \cup {d} ELSE blobs
               /\ started' = d
               /\ lastEvent' = Event("step")
               /\ UNCHANGED <<historyCalls, revokeTimers, revokedBlobs>>
    /\ UNCHANGED <<wizardVars, artifactVars, runVars, error>>
    /\ UNCHANGED <<urlVars, genVars, fnVars, auxVars>>

\* the argument of saveQRHistory, with the call it belongs to: the download,
\* the state downloadQRCode had left it in, and the number of the call
HistoryCall(d) ==
    [ url |-> downloads[d].config.text,
      style_used |-> downloads[d].config.style,
      foreground |-> downloads[d].config.foregroundColor,
      background |-> downloads[d].config.backgroundColor,
      export_format |-> downloads[d].format,
      slot |-> d,
      after |-> downloads[d].pc,
      call |-> 1 + Cardinality({h \in historyCalls : h.slot = d}) ]

\* handleDownload resumes after downloadQRCode resolved: saveQRHistory is called
HandleDownloadExported_WhateverOutcome(d) ==
    /\ downloads[d].caller = "handleDownload"
    /\ downloads[d].pc \in {"exportResolved", "exportRejected"}
    /\ historyCalls' = historyCalls \cup {HistoryCall(d)}
    /\ downloads' = [downloads EXCEPT ![d].pc = "savingHistory"]
    /\ lastEvent' = Event("step")
    /\ UNCHANGED <<wizardVars, artifactVars, runVars, started, savedFiles, blobs,
                   revokeTimers, revokedBlobs, error>>
    /\ UNCHANGED <<urlVars, genVars, fnVars, auxVars>>

HandleDownloadExported(d) ==
    /\ downloads[d].caller = "handleDownload"
    /\ downloads[d].pc = "exportResolved"
    /\ historyCalls' = historyCalls \cup {HistoryCall(d)}
    /\ downloads' = [downloads EXCEPT ![d].pc = "savingHistory"]
    /\ lastEvent' = Event("step")
    /\ UNCHANGED <<wizardVars, artifactVars, runVars, started, savedFiles, blobs,
                   revokeTimers, revokedBlobs, error>>
    /\ UNCHANGED <<urlVars, genVars, fnVars, auxVars>>

\* handleDownload resumes after downloadQRCode rejected: the outer catch
HandleDownloadExportFailed(d) ==
    /\ downloads[d].caller = "handleDownload"
    /\ downloads[d].pc = "exportRejected"
    /\ error' = ExportErrorMessage(downloads[d].cause)
    /\ downloads' = [downloads EXCEPT ![d] = FreeSlot]
    /\ lastEvent' = EventOf("handleDownload:failed", downloads[d])
    /\ UNCHANGED <<wizardVars, artifactVars, runVars, started, savedFiles,
                   historyCalls, blobs, revokeTimers, revokedBlobs>>
    /\ UNCHANGED <<urlVars, genVars, fnVars, auxVars>>

\* saveQRHistory settles and handleDownload runs to its end: a rejection is
\* caught by the inner catch
HistorySettles_Propagates(d) ==
    /\ downloads[d].pc = "savingHistory"
    /\ \E ok \in BOOLEAN :
         /\ lastEvent' = EventOf(IF ok THEN "handleDownload:done"
                                 ELSE "handleDownload:failed",
                                 [downloads[d] EXCEPT
                                     !.history = IF ok THEN "ok" ELSE "failed"])
         /\ error' = IF ok THEN error ELSE "Failed to save to history"
         /\ revokeTimers' =
              IF ok /\ downloads[d].format = "svg" /\ downloads[d].blob # 0
              THEN revokeTimers \cup {downloads[d].blob}
              ELSE revokeTimers
    /\ downloads' = [downloads EXCEPT ![d] = FreeSlot]
    /\ UNCHANGED <<wizardVars, artifactVars, runVars, started, savedFiles,
                   historyCalls, blobs, revokedBlobs>>
    /\ UNCHANGED <<urlVars, genVars, fnVars, auxVars>>

HistorySettles(d) ==
    /\ downloads[d].pc = "savingHistory"
    /\ \E ok \in BOOLEAN :
         lastEvent' = EventOf("handleDownload:done",
                              [downloads[d] EXCEPT
                                  !.history = IF ok THEN "ok" ELSE "failed"])
    /\ revokeTimers' =
         IF downloads[d].format = "svg" /\ downloads[d].blob # 0
         THEN revokeTimers \cup {downloads[d].blob}
         ELSE revokeTimers
    /\ downloads' = [downloads EXCEPT ![d] = FreeSlot]
    /\ UNCHANGED <<wizardVars, artifactVars, runVars, started, savedFiles,
                   historyCalls, blobs, revokedBlobs, error>>
    /\ UNCHANGED <<urlVars, genVars, fnVars, auxVars>>

\* the timer set by setTimeout(() => URL.revokeObjectURL(downloadUrl), 1000)
RevokeTimerFires(b) ==
    /\ b \in revokeTimers
    /\ revokeTimers' = revokeTimers \ {b}
    /\ revokedBlobs' = revokedBlobs \cup {b}
    /\ lastEvent' = Event("step")
    /\ UNCHANGED <<wizardVars, artifactVars, runVars, downloads, started,
                   savedFiles, historyCalls, blobs, error>>
    /\ UNCHANGED <<urlVars, genVars, fnVars, auxVars>>

-----------------------------------------------------------------------------
(* The ExportOptions component *)

\* disabled={disabled || isDownloading === formatInfo.format}
ButtonDisabled(format) == eoDisabled \/ isDownloading = format

\* a click on the button of a format: handleDownload up to its await
ExportOptionsHandleDownload(format) ==
    /\ ~ButtonDisabled(format)
    /\ Len(eoCalls) < MaxExportClicks
    /\ isDownloading' = format
    /\ eoCalls' = Append(eoCalls, [format |-> format, pc |-> "awaiting"])
    /\ UNCHANGED eoDisabled
    /\ UNCHANGED <<urlVars, genVars, appVars, fnVars, tileVars, colorVars, markupVars>>

\* onDownload(format) settles and handleDownload resumes: finally
ExportOptionsDownloadSettles(i) ==
    /\ i \in DOMAIN eoCalls
    /\ eoCalls[i].pc = "awaiting"
    /\ \E outcome \in {"resolved", "rejected"} :
         eoCalls' = [eoCalls EXCEPT ![i].pc = outcome]
    /\ isDownloading' = "null"
    /\ UNCHANGED eoDisabled
    /\ UNCHANGED <<urlVars, genVars, appVars, fnVars, tileVars, colorVars, markupVars>>

-----------------------------------------------------------------------------
(* applyImagePattern: its tiling loops and its module-stamping loops *)

Min(a, b) == IF a <= b THEN a ELSE b

\* lengths of the tiling loops are in quarter pixels, width / 4 being a
\* fraction: Math.min(patternImg.width, width / 4)
patternWidth == Min(4 * tileArgs.patternWidth, tileArgs.width)
patternHeight == Min(4 * tileArgs.patternHeight, tileArgs.height)

\* Math.max(1, Math.floor(width / 25))
moduleSize == Max(1, tileArgs.width \div 25)

\* the inner tiling loop: its test passing and patternCtx.drawImage being
\* called; then drawImage returning (it paints nothing for an image of width
\* or height 0) and the loop steps that follow it; after the last pass the
\* canvas is cleared and refilled
PatternTileDrawn ==
    /\ tilePc \in {"tiling", "drawing"}
    /\ LET x == tileAt[1]
           y == tileAt[2]
       IN IF tilePc = "tiling"
          THEN tilePc' = "drawing" /\ UNCHANGED tileAt
          ELSE IF y + patternHeight < 4 * tileArgs.height
          THEN tileAt' = <<x, y + patternHeight>> /\ tilePc' = "tiling"
          ELSE IF x + patternWidth < 4 * tileArgs.width
          THEN tileAt' = <<x + patternWidth, 0>> /\ tilePc' = "tiling"
          ELSE tileAt' = <<0, 0>> /\ tilePc' = "stamping"
    /\ UNCHANGED tileArgs
    /\ UNCHANGED <<urlVars, genVars, appVars, fnVars, eoVars, colorVars, markupVars>>

\* one pass of the inner stamping loop, whatever the pixel read, and the
\* loop steps that follow it; after the last pass resolve()
PatternModuleVisited ==
    /\ tilePc = "stamping"
    /\ LET x == tileAt[1]
           y == tileAt[2]
       IN IF y + moduleSize < tileArgs.height
          THEN tileAt' = <<x, y + moduleSize>> /\ UNCHANGED tilePc
          ELSE IF x + moduleSize < tileArgs.width
          THEN tileAt' = <<x + moduleSize, 0>> /\ UNCHANGED tilePc
          ELSE tileAt' = <<x + moduleSize, 0>> /\ tilePc' = "resolved"
    /\ UNCHANGED tileArgs
    /\ UNCHANGED <<urlVars, genVars, appVars, fnVars, eoVars, colorVars, markupVars>>

-----------------------------------------------------------------------------
(* adjustColorBrightness *)

HexDigits == <<"0", "1", "2", "3", "4", "5", "6", "7", "8", "9",
               "a", "b", "c", "d", "e", "f">>
UpperHexDigits == <<"A", "B", "C", "D", "E", "F">>

IsHexDigit(c) ==
    \/ \E i \in DOMAIN HexDigits : HexDigits[i] = c
    \/ \E i \in DOMAIN UpperHexDigits : UpperHexDigits[i] = c

HexDigitValue(c) ==
    IF \E i \in DOMAIN HexDigits : HexDigits[i] = c
    THEN (CHOOSE i \in DOMAIN HexDigits : HexDigits[i] = c) - 1
    ELSE (CHOOSE i \in DOMAIN UpperHexDigits : UpperHexDigits[i] = c) + 9

\* color.replace('#', ''): the first '#' removed
RemoveFirstHash(s) ==
    LET i == FirstIdx(s, {"#"})
    IN IF i = 0 THEN s ELSE SubSeq(s, 1, i - 1) \o SubSeq(s, i + 1, Len(s))

\* hex.substr(start, 2), start counted from 0
Substr2(s, start) == SubSeq(s, start + 1, Min(start + 2, Len(s)))

\* parseInt(s, 16) of a string of at most two characters without whitespace,
\* sign or 0x prefix: the value of its longest prefix of hex digits, NaN when
\* that prefix is empty
ParseIntHex(s) ==
    IF s = <<>> \/ ~IsHexDigit(s[1]) THEN [nan |-> TRUE, value |-> 0]
    ELSE IF Len(s) >= 2 /\ IsHexDigit(s[2])
         THEN [nan |-> FALSE, value |-> 16 * HexDigitValue(s[1]) + HexDigitValue(s[2])]
         ELSE [nan |-> FALSE, value |-> HexDigitValue(s[1])]

\* n.toString(16) for n >= 0
RECURSIVE ToHexString(_)
ToHexString(n) ==
    IF n < 16 THEN <<HexDigits[n + 1]>>
    ELSE ToHexString(n \div 16) \o <<HexDigits[(n % 16) + 1]>>

\* s.padStart(2, '0')
PadStart2(s) == IF Len(s) < 2 THEN <<"0">> \o s ELSE s

adjustColorBrightness_NoUpperLimit(color, amount) ==
    LET hex == RemoveFirstHash(color)
        Channel(start) ==
            LET parsed == ParseIntHex(Substr2(hex, start))
            IN IF parsed.nan THEN 0 ELSE Max(0, parsed.value + amount)
    IN <<"#">> \o PadStart2(ToHexString(Channel(0)))
              \o PadStart2(ToHexString(Channel(2)))
              \o PadStart2(ToHexString(Channel(4)))

adjustColorBrightness(color, amount) ==
    LET hex == RemoveFirstHash(color)
        Channel(start) ==
            LET parsed == ParseIntHex(Substr2(hex, start))
            IN IF parsed.nan THEN 0
               ELSE Max(0, Min(255, parsed.value + amount))
    IN <<"#">> \o PadStart2(ToHexString(Channel(0)))
              \o PadStart2(ToHexString(Channel(2)))
              \o PadStart2(ToHexString(Channel(4)))

\* the colors and amounts of the calls: 6-digit colors in either case, with
\* and without '#', shorter ones, and channels that are no hex digits
ColorChars == {"0", "8", "f", "A", "g"}
ColorInputs ==
    LET digits == UNION { [1..k -> ColorChars] : k \in {0, 3, 6} }
    IN { <<"#">> \o t : t \in digits } \cup { t \in digits : \A i \in DOMAIN t : t[i] \in {"0", "f"} }
Amounts == {-300, -20, -1, 0, 1, 300}

CallAdjustColorBrightness ==
    /\ colorPc = "input"
    /\ colorPc' = "returned"
    /\ colorOut' = adjustColorBrightness(colorIn.color, colorIn.amount)
    /\ UNCHANGED colorIn
    /\ UNCHANGED <<urlVars, genVars, appVars, fnVars, eoVars, tileVars, markupVars>>

-----------------------------------------------------------------------------
(* applySVGArtisticEffects: the rewriting of the markup *)

\* SVG markup is a sequence of tags in text order.  A tag has a name, its
\* attributes in text order, separated by single spaces, and its end, '>' or
\* '/>'; the value of an attribute is a string
Attr(name, value) == [name |-> name, value |-> value]
Tag(name, attrs, end) == [tag |-> name, attrs |-> attrs, end |-> end]

\* the number n / 2, n >= 0, as a template string prints it
RECURSIVE DecimalString(_)
DecimalString(n) ==
    LET digit == CHOOSE c \in AsciiDigit : DigitVal(c) = n % 10
    IN IF n < 10 THEN <<digit>> ELSE DecimalString(n \div 10) \o <<digit>>
HalfString(n) ==
    IF n % 2 = 0 THEN DecimalString(n \div 2)
    ELSE DecimalString(n \div 2) \o <<".", "5">>

\* s.replace('<svg', defs + '<svg'): the text is put in front of the first
\* '<svg' of the string
InsertBeforeSvg(markup, defs) ==
    IF \E i \in DOMAIN markup : markup[i].tag = "svg"
    THEN LET i == CHOOSE k \in DOMAIN markup :
                    /\ markup[k].tag = "svg"
                    /\ \A j \in 1..(k - 1) : markup[j].tag # "svg"
         IN SubSeq(markup, 1, i - 1) \o <<defs>> \o SubSeq(markup, i, Len(markup))
    ELSE markup

\* s.replace(/fill="([^"]*)" /g, ...): every fill attribute that a space
\* follows, which the last attribute of a tag has not
RECURSIVE ReplaceFills(_, _)
ReplaceFills(attrs, replacement) ==
    IF Len(attrs) <= 1 THEN attrs
    ELSE (IF Head(attrs).name = "fill" THEN replacement ELSE <<Head(attrs)>>)
            \o ReplaceFills(Tail(attrs), replacement)

RewriteFills(markup, replacement) ==
    [i \in DOMAIN markup |->
        [markup[i] EXCEPT !.attrs = ReplaceFills(markup[i].attrs, replacement)]]

\* /<rect x="(\d+)" y="(\d+)" width="(\d+)" height="(\d+)"([^>]*)\/>/
RectPatternMatches(t) ==
    /\ t.tag = "rect"
    /\ t.end = "/>"
    /\ Len(t.attrs) >= 4
    /\ <<t.attrs[1].name, t.attrs[2].name, t.attrs[3].name, t.attrs[4].name>>
         = <<"x", "y", "width", "height">>
    /\ \A i \in 1..4 : t.attrs[i].value # <<>> /\ AllIn(t.attrs[i].value, AsciiDigit)

\* the circle the 'dots' replacer returns for a match
CircleOfRect(t) ==
    LET x == DecimalValue(t.attrs[1].value)
        y == DecimalValue(t.attrs[2].value)
        width == DecimalValue(t.attrs[3].value)
        height == DecimalValue(t.attrs[4].value)
    IN Tag("circle",
           << Attr("cx", HalfString(2 * x + width)),
              Attr("cy", HalfString(2 * y + height)),
              Attr("r", HalfString(Min(width, height))) >>
             \o SubSeq(t.attrs, 5, Len(t.attrs)),
           "/>")

\* /<rect([^>]*)>/ replaced by '<rect$1 rx="2" ry="2">': the '/' of a
\* self-closing tag is part of $1
RoundedRect(t) ==
    IF t.tag # "rect" THEN t
    ELSE Tag("rect",
             t.attrs \o (IF t.end = "/>" THEN <<Attr("/", <<>>)>> ELSE <<>>)
                     \o <<Attr("rx", <<"2">>), Attr("ry", <<"2">>)>>,
             ">")

PatternDefs == Tag("defs", <<Attr("id", "qr-image-pattern")>>, ">")
ArtisticDefs == Tag("defs", <<Attr("id", "qr-gradient"), Attr("id", "qr-shadow")>>, ">")

applySVGArtisticEffects(svgString, style, foregroundImage) ==
    IF foregroundImage
    THEN RewriteFills(InsertBeforeSvg(svgString, PatternDefs),
                      <<Attr("fill", "url(#qr-image-pattern)")>>)
    ELSE CASE style = "rounded" ->
                [i \in DOMAIN svgString |-> RoundedRect(svgString[i])]
           [] style = "dots" ->
                [i \in DOMAIN svgString |->
                    IF RectPatternMatches(svgString[i])
                    THEN CircleOfRect(svgString[i]) ELSE svgString[i]]
           [] style = "artistic" ->
                RewriteFills(InsertBeforeSvg(svgString, ArtisticDefs),
                             << Attr("fill", "url(#qr-gradient)"),
                                Attr("filter", "url(#qr-shadow)") >>)
           [] OTHER -> svgString

\* the markups of the calls: an svg element holding rectangles and paths, in
\* the forms SVG allows
Fill == Attr("fill", "#000000")
ShapeElements ==
    { Tag("rect", <<Attr("x", <<"1">>), Attr("y", <<"0">>), Attr("width", <<"1">>),
                    Attr("height", <<"2">>), Fill>>, "/>"),
      Tag("rect", <<Attr("width", <<"1">>), Attr("height", <<"2">>),
                    Attr("x", <<"1">>), Attr("y", <<"0">>)>>, "/>"),
      Tag("rect", <<Attr("x", <<"1", ".", "5">>), Attr("y", <<"0">>),
                    Attr("width", <<"1">>), Attr("height", <<"2">>)>>, "/>"),
      Tag("rect", <<Attr("x", <<"1">>), Attr("y", <<"0">>), Attr("width", <<"1">>),
                    Attr("height", <<"2">>)>>, ">"),
      Tag("path", <<Fill, Attr("d", "M0 0h1v1H0z")>>, "/>"),
      Tag("path", <<Attr("d", "M0 0h1v1H0z"), Fill>>, "/>") }

Markups ==
    { <<Tag("svg", <<Attr("xmlns", "http://www.w3.org/2000/svg")>>, ">")>>
        \o shapes \o <<Tag("/svg", <<>>, ">")>> :
      shapes \in UNION { [1..k -> ShapeElements] : k \in 1..MaxElements } }

CallApplySVGArtisticEffects ==
    /\ markupPc = "input"
    /\ markupPc' = "returned"
    /\ markupOut' = applySVGArtisticEffects(markupIn.markup, markupIn.style,
                                            markupIn.foregroundImage)
    /\ UNCHANGED markupIn
    /\ UNCHANGED <<urlVars, genVars, appVars, fnVars, eoVars, tileVars, colorVars>>

-----------------------------------------------------------------------------
(* Specifications: each drives one part of the program, the rest stays idle *)

UrlIdle ==
    /\ text = JsString(<<>>)
    /\ urlPc = "off"
    /\ validOut = FALSE
    /\ formatOut = JsString(<<>>)
    /\ validFormatOut = FALSE
    /\ formatTwiceOut = JsString(<<>>)

GenIdle ==
    /\ genConfig = [ text |-> JsString(<<>>), size |-> 0, margin |-> 0,
                     foregroundColor |-> "", backgroundColor |-> "",
                     style |-> "square", foregroundImage |-> "" ]
    /\ rPc = "off"
    /\ rError = ""
    /\ rResult = NoRaster
    /\ canvas = <<>>
    /\ sPc = "off"
    /\ sError = ""
    /\ sResult = NoSvg
    /\ encoderCalls = {}
    /\ stepsDone = {}

PdfIdle ==
    /\ pdfPc = "off"
    /\ pdfImage = [width |-> 0, height |-> 0]
    /\ pdfPage = [width |-> 0, height |-> 0]
    /\ pdfDoc = [pages |-> 0, images |-> <<>>]

SvgIdle == svgOut = <<>>

DotsIdle ==
    /\ dotsPc = "off"
    /\ dotsWidth = 0
    /\ dotsHeight = 0
    /\ dotsData = <<>>
    /\ dotsAt = <<0, 0>>
    /\ dotsCircles = {}

FnIdle == PdfIdle /\ SvgIdle /\ DotsIdle

EoIdle ==
    /\ eoDisabled = TRUE
    /\ isDownloading = "null"
    /\ eoCalls = <<>>

TileIdle ==
    /\ tilePc = "off"
    /\ tileArgs = [width |-> 0, height |-> 0, patternWidth |-> 0, patternHeight |-> 0]
    /\ tileAt = <<0, 0>>

ColorIdle ==
    /\ colorPc = "off"
    /\ colorIn = [color |-> <<>>, amount |-> 0]
    /\ colorOut = <<>>

MarkupIdle ==
    /\ markupPc = "off"
    /\ markupIn = [markup |-> <<>>, style |-> "square", foregroundImage |-> FALSE]
    /\ markupOut = <<>>

AuxIdle == EoIdle /\ TileIdle /\ ColorIdle /\ MarkupIdle

AppIdle ==
    /\ currentStep = "url"
    /\ url = <<>>
    /\ config = InitialConfig
    /\ qrDataUrl = EmptyString
    /\ qrSvg = EmptyString
    /\ isGenerating = FALSE
    /\ error = ""
    /\ runs = [r \in 1..MaxRuns |-> FreeRun]
    /\ requested = 0
    /\ downloads = [d \in 1..MaxDownloads |-> FreeSlot]
    /\ started = 0
    /\ savedFiles = {}
    /\ historyCalls = {}
    /\ blobs = {}
    /\ revokeTimers = {}
    /\ revokedBlobs = {}
    /\ lastEvent = Event("none")

InitUrl ==
    /\ AuxIdle
    /\ text \in UrlInputs
    /\ urlPc = "input"
    /\ validOut = FALSE
    /\ formatOut = JsString(<<>>)
    /\ validFormatOut = FALSE
    /\ formatTwiceOut = JsString(<<>>)
    /\ GenIdle
    /\ AppIdle
    /\ FnIdle

NextUrl ==
    \/ CallIsValidUrl
    \/ CallFormatUrl
    \/ CallIsValidUrlOnFormatted
    \/ CallFormatUrlOnFormatted

SpecUrl == InitUrl /\ [][NextUrl]_vars

InitGen ==
    /\ AuxIdle
    /\ UrlIdle
    /\ AppIdle
    /\ FnIdle
    /\ genConfig \in GenConfigs
    /\ rPc = "idle"
    /\ rError = ""
    /\ rResult = NoRaster
    /\ canvas = <<>>
    /\ sPc = "idle"
    /\ sError = ""
    /\ sResult = NoSvg
    /\ encoderCalls = {}
    /\ stepsDone = {}

NextGen ==
    \/ GenerateQRCodeCall
    \/ RasterEncoderRejects
    \/ RasterEncoderResolves
    \/ BaseImageOnError
    \/ BaseImageOnLoad
    \/ PatternImageOnError
    \/ PatternImageOnLoad
    \/ PatternThenHandler
    \/ PatternCatchHandler
    \/ GenerateQRCodeSVGCall
    \/ SvgEncoderRejects
    \/ SvgEncoderResolves

SpecGen == InitGen /\ [][NextGen]_vars

\* the generators when every pending step is eventually taken: the encoder
\* settles, an image decode fires onload or onerror, a promise reaction runs
SpecGenFair == SpecGen /\ WF_vars(NextGen)

\* the component as constructed
InitApp ==
    /\ AuxIdle
    /\ UrlIdle
    /\ GenIdle
    /\ AppIdle
    /\ FnIdle

NextApp ==
    \/ \E u \in AppUrls : SetUrl(u)
    \/ handleUrlSubmit
    \/ \E style \in AppStyles : handleStyleSelect(style)
    \/ handleStyleNext
    \/ \E colors \in TemplateColors : handleTemplateSelect(colors)
    \/ \E color \in AppColors : handleColorChange(color)
    \/ handleGeneratePreview
    \/ \E r \in 1..MaxRuns : GenerateQRSucceeds(r)
    \/ \E r \in 1..MaxRuns : GenerateQRFails(r)
    \/ handleBack
    \/ CreateAnother

SpecApp == InitApp /\ [][NextApp]_vars

\* the component on the preview step after its first generateQR call, which
\* left it holding both artifacts or, having failed, none: the states an
\* export starts from
ExportConfigs ==
    { [InitialConfig EXCEPT !.text = t, !.style = st, !.foregroundColor = fg] :
        t \in { formatUrl(JsString(Trim(u))).chars :
                  u \in { v \in AppUrls : isValidUrl(JsString(Trim(v))) } },
        st \in AppStyles, fg \in AppColors }

InitExport ==
    /\ AuxIdle
    /\ UrlIdle
    /\ GenIdle
    /\ FnIdle
    /\ currentStep = "preview"
    /\ config \in ExportConfigs
    /\ url \in { u \in AppUrls : isValidUrl(JsString(Trim(u)))
                                   /\ formatUrl(JsString(Trim(u))).chars = config.text }
    /\ \/ /\ qrDataUrl = RasterArtifact(1, config)
          /\ qrSvg = SvgArtifact(1, config)
          /\ error = ""
          /\ lastEvent = Event("generateQR:succeeded")
       \/ /\ qrDataUrl = EmptyString
          /\ qrSvg = EmptyString
          /\ error = GeneratorErrorMessage("generateQRCode")
          /\ lastEvent = Event("generateQR:failed")
    /\ isGenerating = FALSE
    /\ runs = [r \in 1..MaxRuns |-> FreeRun]
    /\ requested = 1
    /\ downloads = [d \in 1..MaxDownloads |-> FreeSlot]
    /\ started = 0
    /\ savedFiles = {}
    /\ historyCalls = {}
    /\ blobs = {}
    /\ revokeTimers = {}
    /\ revokedBlobs = {}

NextExport ==
    \/ \E format \in Formats : handleDownload(format)
    \/ DownloadQRCodeDirect
    \/ \E d \in 1..MaxDownloads : DirectCallSettles(d)
    \/ \E d \in 1..MaxDownloads : PdfImportSettles(d)
    \/ \E d \in 1..MaxDownloads : PdfImageOnError(d)
    \/ \E d \in 1..MaxDownloads : PdfImageOnLoad(d)
    \/ \E d \in 1..MaxDownloads : HandleDownloadExported(d)
    \/ \E d \in 1..MaxDownloads : HandleDownloadExportFailed(d)
    \/ \E d \in 1..MaxDownloads : HistorySettles(d)
    \/ \E b \in 1..MaxDownloads : RevokeTimerFires(b)

SpecExport == InitExport /\ [][NextExport]_vars

\* generatePDF after its image has loaded
InitPdf ==
    /\ AuxIdle
    /\ UrlIdle
    /\ GenIdle
    /\ AppIdle
    /\ pdfPc = "loaded"
    /\ pdfImage \in PdfImages
    /\ pdfPage \in PdfPages
    /\ pdfDoc = [pages |-> 0, images |-> <<>>]
    /\ SvgIdle
    /\ DotsIdle

NextPdf ==
    \/ PdfImagePlaced
    \/ PdfImagePlacementThrows

SpecPdf == InitPdf /\ [][NextPdf]_vars

\* a sequence of calls of applySVGArtisticEffects
InitSvg ==
    /\ AuxIdle
    /\ UrlIdle
    /\ GenIdle
    /\ AppIdle
    /\ FnIdle

NextSvg ==
    \/ SvgImagePatternInjected
    \/ SvgStyleEffects

SpecSvg == InitSvg /\ [][NextSvg]_vars

\* a call of applyDotStyle on a canvas narrower than 200 pixels, where
\* dotSize is 3 and spacing 6: half a cell, or a number of whole cells
DotExtents(cells) == {3} \cup { 6 * k : k \in 1..cells }

InitDots ==
    /\ AuxIdle
    /\ UrlIdle
    /\ GenIdle
    /\ AppIdle
    /\ PdfIdle
    /\ SvgIdle
    /\ dotsPc = "called"
    /\ dotsWidth \in DotExtents(MaxDotColumns)
    /\ dotsHeight \in DotExtents(MaxDotRows)
    /\ dotsData \in [ { c[2] * dotsWidth + c[1] :
                          c \in CellPixels(dotsWidth, dotsHeight) } -> Pixels ]
    /\ dotsAt = <<0, 0>>
    /\ dotsCircles = {}

NextDots ==
    \/ ApplyDotStyleBegins
    \/ DotCellVisited

SpecDots == InitDots /\ [][NextDots]_vars

\* ExportOptions as mounted, with or without an artifact to export
InitExportOptions ==
    /\ UrlIdle
    /\ GenIdle
    /\ AppIdle
    /\ FnIdle
    /\ TileIdle
    /\ ColorIdle
    /\ MarkupIdle
    /\ eoDisabled \in BOOLEAN
    /\ isDownloading = "null"
    /\ eoCalls = <<>>

NextExportOptions ==
    \/ \E format \in Formats : ExportOptionsHandleDownload(format)
    \/ \E i \in 1..MaxExportClicks : ExportOptionsDownloadSettles(i)

SpecExportOptions == InitExportOptions /\ [][NextExportOptions]_vars

\* patternImg.onload of applyImagePattern on entering the tiling loops, for a
\* canvas of positive size and a pattern image that loaded; every pass of a
\* loop that runs is eventually followed by the next
InitTiling ==
    /\ UrlIdle
    /\ GenIdle
    /\ AppIdle
    /\ FnIdle
    /\ EoIdle
    /\ ColorIdle
    /\ MarkupIdle
    /\ tilePc = "tiling"
    /\ tileArgs \in [width : 1..MaxCanvas, height : 1..MaxCanvas,
                     patternWidth : 0..MaxPixels, patternHeight : 0..MaxPixels]
    /\ tileAt = <<0, 0>>

NextTiling ==
    \/ PatternTileDrawn
    \/ PatternModuleVisited

SpecTiling == InitTiling /\ [][NextTiling]_vars /\ WF_vars(NextTiling)

\* one call of adjustColorBrightness
InitColor ==
    /\ UrlIdle
    /\ GenIdle
    /\ AppIdle
    /\ FnIdle
    /\ EoIdle
    /\ TileIdle
    /\ MarkupIdle
    /\ colorPc = "input"
    /\ colorIn \in [color : ColorInputs, amount : Amounts]
    /\ colorOut = <<>>

NextColor == CallAdjustColorBrightness

SpecColor == InitColor /\ [][NextColor]_vars

\* one call of applySVGArtisticEffects on a markup
InitMarkup ==
    /\ UrlIdle
    /\ GenIdle
    /\ AppIdle
    /\ FnIdle
    /\ EoIdle
    /\ TileIdle
    /\ ColorIdle
    /\ markupPc = "input"
    /\ markupIn \in [markup : Markups, style : Styles, foregroundImage : BOOLEAN]
    /\ markupOut = <<>>

NextMarkup == CallApplySVGArtisticEffects

SpecMarkup == InitMarkup /\ [][NextMarkup]_vars

-----------------------------------------------------------------------------
(* Claims about the URL normalizer, checked under SpecUrl *)

Validated == urlPc \in {"validated", "formatted", "revalidated", "done"}
Formatted == urlPc \in {"formatted", "revalidated", "done"}
Revalidated == urlPc \in {"revalidated", "done"}
NonEmptyText == IsString(text) /\ text.chars # <<>>

\* C1 (as stated): for every non-empty text, isValidUrl(text) equals
\* isValidUrl(formatUrl(text)).
C1_ValidityUnchangedByFormat ==
    (Revalidated /\ NonEmptyText) => (validOut = validFormatOut)

\* C1 (amended): for every non-empty text that isValidUrl accepts, isValidUrl
\* accepts formatUrl(text) too; normalizing never loses validity.
C1_ValidityPreservedByFormat ==
    (Revalidated /\ NonEmptyText /\ validOut) => validFormatOut

\* a scheme-less text accepted by isValidUrl was prefixed and re-validated
C1_Witness ==
    /\ Revalidated /\ NonEmptyText /\ validOut /\ validFormatOut
    /\ ~UrlParses(text.chars)
    /\ formatOut.chars = HttpsPrefix \o Trim(text.chars)

\* the domain name of the claim: dot-separated labels of letters, digits and
\* hyphens (a hyphen anywhere after the first character, the widest reading),
\* each of at most 63 characters, the last one of at least 2 letters,
\* optionally followed by a path
ClaimedLabelMax == LabelRepeatMax + 2
ClaimedDomainName(t) ==
    LET slash == FirstIdx(t, {"/"})
        name == IF slash = 0 THEN t ELSE Upto(t, slash - 1)
        labels == SplitDots(name)
        n == Len(labels)
    IN /\ n >= 2
       /\ \A i \in 1..n :
             /\ labels[i] # <<>>
             /\ Len(labels[i]) <= ClaimedLabelMax
             /\ AllIn(labels[i], AsciiAlnum \cup {"-"})
             /\ labels[i][1] # "-"
       /\ Len(labels[n]) >= TldMinLen
       /\ AllIn(labels[n], AsciiAlpha)

\* C2: isValidUrl(text) is true exactly when the text parses as an absolute
\* URL, or 'https://' + text parses and the text is a domain name (one or
\* several labels before the top-level label) with an optional path; it is
\* false for empty, whitespace-only and non-string input.
C2_IsValidUrlExactlyDomainNames ==
    Validated =>
        (validOut =
            ( /\ IsString(text)
              /\ Trim(text.chars) # <<>>
              /\ \/ UrlParses(Trim(text.chars))
                 \/ /\ UrlParses(HttpsPrefix \o Trim(text.chars))
                    /\ ClaimedDomainName(Trim(text.chars)) ))

\* C3 (as stated): formatUrl(text) is text itself if text parses, else
\* 'https://' + text if that parses, else the trimmed text.
C3_FormatUrlOfUntrimmedText ==
    (Formatted /\ IsString(text)) =>
        formatOut =
            JsString(IF UrlParses(text.chars) THEN text.chars
                     ELSE IF UrlParses(HttpsPrefix \o text.chars)
                          THEN HttpsPrefix \o text.chars
                          ELSE Trim(text.chars))

\* C3 (amended): with t the trimmed text, formatUrl(text) is t if t parses,
\* else 'https://' + t if that parses, else t; a non-string input gives ''.
C3_FormatUrlOfTrimmedText ==
    Formatted =>
        LET t == Trim(text.chars)
        IN /\ ~IsString(text) => formatOut = JsString(<<>>)
           /\ (IsString(text) /\ UrlParses(t)) => formatOut = JsString(t)
           /\ (IsString(text) /\ ~UrlParses(t) /\ UrlParses(HttpsPrefix \o t))
                 => formatOut = JsString(HttpsPrefix \o t)
           /\ (IsString(text) /\ ~UrlParses(t) /\ ~UrlParses(HttpsPrefix \o t))
                 => formatOut = JsString(t)

\* a text with surrounding whitespace was trimmed and prefixed
C3_Witness ==
    /\ Formatted /\ IsString(text)
    /\ Trim(text.chars) # text.chars
    /\ formatOut = JsString(HttpsPrefix \o Trim(text.chars))

\* C30: formatUrl is idempotent: formatUrl(formatUrl(text)) equals
\* formatUrl(text) for every input, so a text that received the https://
\* prefix is not prefixed a second time.
C30_FormatUrlIdempotent ==
    urlPc = "done" => formatTwiceOut = formatOut

\* a text that was prefixed by the first call went through the second
C30_Witness ==
    /\ urlPc = "done"
    /\ IsString(text)
    /\ ~UrlParses(Trim(text.chars))
    /\ formatOut = JsString(HttpsPrefix \o Trim(text.chars))
    /\ formatTwiceOut = formatOut

-----------------------------------------------------------------------------
(* Claims about generateQRCode and generateQRCodeSVG, under SpecGen *)

NonEmptyStringText == IsString(genConfig.text) /\ genConfig.text.chars # <<>>

RasterEncoderSucceeded == rPc \notin {"idle", "encoding"} /\ rError = ""

\* C4: whenever config.text is a non-empty string and the encoder call
\* succeeded, the promise of generateQRCode is resolved or still has a step
\* pending that settles it, and generateQRCodeSVG has not rejected: no styling
\* failure leaves a generator rejected or never settled.
C4_StylingFailureNeverPropagates ==
    NonEmptyStringText =>
        /\ RasterEncoderSucceeded => rPc \notin {"rejected", "abandoned"}
        /\ (sPc \notin {"idle", "encoding"} /\ sError = "") => sPc = "resolved"

\* C5: with a text that is empty or not a string, both generators reject
\* without an encoder call or a styling step, and no artifact is produced.
C5_InvalidTextRejectsBeforeEncoder ==
    ~NonEmptyStringText =>
        /\ rPc \in {"idle", "rejected"}
        /\ sPc \in {"idle", "rejected"}
        /\ rPc = "rejected" => rError # ""
        /\ sPc = "rejected" => sError # ""
        /\ encoderCalls = {}
        /\ stepsDone = {}
        /\ canvas = <<>>
        /\ rResult = NoRaster
        /\ sResult = NoSvg

C5_Witness ==
    /\ genConfig.text = JsOther(TRUE)
    /\ rPc = "rejected"
    /\ sPc = "rejected"

\* C6: with style 'square' and no pattern image no decode, canvas or rewrite
\* step runs, generateQRCode resolves with exactly the encoder's raster and
\* generateQRCodeSVG with exactly the encoder's markup.
C6_SquareWithoutPatternIsNoOp ==
    (genConfig.style = "square" /\ genConfig.foregroundImage = "") =>
        /\ stepsDone = {}
        /\ canvas = <<>>
        /\ rPc \in {"idle", "encoding", "rejected", "resolved"}
        /\ rPc = "resolved" => rResult = BaseRaster
        /\ sPc = "resolved" => sResult = BaseSvg

C6_Witness ==
    /\ genConfig.style = "square"
    /\ genConfig.foregroundImage = ""
    /\ rPc = "resolved"
    /\ rResult = BaseRaster
    /\ sPc = "resolved"
    /\ sResult = BaseSvg

\* C7: for a config with non-empty text, positive size, non-negative margin
\* (0 included) and both colors set, every encoder call carries level 'M',
\* width config.size, margin config.margin, dark config.foregroundColor and
\* light config.backgroundColor.
C7_EncoderReceivesConfiguredOptions ==
    ( /\ NonEmptyStringText
      /\ genConfig.size > 0
      /\ genConfig.margin >= 0
      /\ genConfig.foregroundColor # ""
      /\ genConfig.backgroundColor # "" ) =>
        \A call \in encoderCalls :
            /\ call.options.errorCorrectionLevel = "M"
            /\ call.options.width = genConfig.size
            /\ call.options.margin = genConfig.margin
            /\ call.options.dark = genConfig.foregroundColor
            /\ call.options.light = genConfig.backgroundColor

\* C24: every call of applyArtisticEffects eventually settles: once the
\* function waits for its image to decode, its promise is eventually resolved,
\* on every path.
C24_ArtisticEffectsSettles ==
    (rPc = "decoding") ~> (rPc = "resolved")

-----------------------------------------------------------------------------
(* Claims about generateQR, under SpecApp *)

\* C8: when a generateQR run whose encoder call failed finishes, qrDataUrl and
\* qrSvg are both empty, error holds the failure message and isGenerating is
\* false.
C8_EncoderFailureLeavesNoArtifact ==
    lastEvent.op = "generateQR:failed" =>
        /\ qrDataUrl = EmptyString
        /\ qrSvg = EmptyString
        /\ error \in { GeneratorErrorMessage(g) :
                         g \in {"generateQRCode", "generateQRCodeSVG"} }
        /\ ~isGenerating

\* a second run failed after the first one had produced artifacts
C8_Witness ==
    /\ lastEvent.op = "generateQR:failed"
    /\ requested = 2
    /\ \A r \in 1..2 : runs[r].pc = "free"
    /\ qrDataUrl = EmptyString
    /\ error = GeneratorErrorMessage("generateQRCodeSVG")

\* the step before a step of the wizard
PreviousStep(step) ==
    CASE step = "style" -> "url"
      [] step = "customize" -> "style"
      [] step = "preview" -> "customize"
      [] OTHER -> step

\* C27: on the steps 'style', 'customize' and 'preview' config.text is
\* non-empty and isValidUrl accepts it; the wizard leaves step 'url' only to
\* step 'style', with a url that isValidUrl accepts and config.text set to
\* its formatted form; a move one step back leaves config unchanged; and
\* config.text is emptied only by the reset on step 'preview', which returns
\* to step 'url'.
C27_StepsPastUrlHoldValidText ==
    /\ [](currentStep # "url" =>
            /\ config.text # <<>>
            /\ isValidUrl(JsString(config.text)))
    /\ [][ /\ (currentStep = "url" /\ currentStep' # "url") =>
                /\ currentStep' = "style"
                /\ Trim(url) # <<>>
                /\ isValidUrl(JsString(Trim(url)))
                /\ config'.text = formatUrl(JsString(Trim(url))).chars
           /\ (currentStep # "url" /\ currentStep' = PreviousStep(currentStep)) =>
                config' = config
           /\ (config.text # <<>> /\ config'.text = <<>>) =>
                /\ currentStep = "preview"
                /\ currentStep' = "url"
         ]_vars

\* the wizard went to the preview and two steps back, holding its text
C27_Witness ==
    /\ currentStep = "style"
    /\ requested >= 1
    /\ config.text = HttpsPrefix \o <<"a", ".", "a", "a">>

\* C25: isGenerating is true in every state in which a generateQR run is in
\* flight, also when several runs overlap and one of them has finished.
C25_GeneratingWhileAnyRunInFlight ==
    (\E r \in 1..MaxRuns : runs[r].pc = "awaiting") => isGenerating

\* C26: a held artifact belongs to the current URL: qrDataUrl or qrSvg is
\* non-empty, or an error is shown, only while config.text is non-empty; so
\* after the reset they stay empty until a new generation is requested, even
\* if a generation started before the reset completes afterwards.
C26_ArtifactsBelongToCurrentUrl ==
    config.text = <<>> =>
        /\ qrDataUrl = EmptyString
        /\ qrSvg = EmptyString
        /\ error = ""

-----------------------------------------------------------------------------
(* Claims about downloadQRCode and handleDownload, under SpecExport *)

\* the calls of downloadQRCode in flight, and the one that settled last
ExportCalls ==
    { rec \in {downloads[d] : d \in 1..MaxDownloads} \cup {lastEvent.rec} :
        rec.caller # "none" }

\* C9: a call of downloadQRCode with empty data or an empty filename is
\* rejected and saves nothing; a call whose PDF generation failed is rejected
\* and triggers no file save; a call resolves only after the file save was
\* triggered; and a handleDownload whose export was rejected ends with the
\* error state holding the failure, never as completed.
C9_ExportFailureIsTerminal ==
    /\ \A rec \in ExportCalls :
         /\ (rec.dataUrl = EmptyString \/ rec.filename = "") =>
               rec.pc = "exportRejected" /\ ~rec.saved
         /\ rec.cause = "pdf" => rec.pc = "exportRejected" /\ ~rec.saved
         /\ rec.cause = "save" => rec.pc = "exportRejected" /\ ~rec.saved
         /\ rec.pc \in {"exportResolved", "savingHistory"} =>
               rec.saved /\ rec.cause = ""
    /\ lastEvent.op = "handleDownload:failed" =>
         /\ lastEvent.rec.pc = "exportRejected"
         /\ error = ExportErrorMessage(lastEvent.rec.cause)
         /\ error # ""
    /\ lastEvent.op = "handleDownload:done" => lastEvent.rec.saved
    /\ lastEvent.op = "downloadQRCode:resolved" => lastEvent.rec.saved

\* handleDownload ended after a failed PDF generation while a direct call with
\* a missing parameter is rejected
C9_Witness ==
    /\ lastEvent.op = "handleDownload:failed"
    /\ lastEvent.rec.format = "pdf"
    /\ lastEvent.rec.cause = "pdf"
    /\ error = ExportErrorMessage("pdf")
    /\ \E d \in 1..MaxDownloads :
         /\ downloads[d].caller = "direct"
         /\ downloads[d].cause = "missing"
         /\ downloads[d].pc = "exportRejected"

\* C10: when saveQRHistory rejects, handleDownload completes: the error state
\* is left as it was, and the revocation of the blob URL of an SVG export is
\* still scheduled.
C10_HistoryFailureIsSwallowed ==
    [][ lastEvent'.rec.history = "failed" =>
           /\ lastEvent'.op = "handleDownload:done"
           /\ error' = error
           /\ (lastEvent'.rec.format = "svg" /\ lastEvent'.rec.blob # 0) =>
                 lastEvent'.rec.blob \in revokeTimers' ]_vars

C10_Witness ==
    /\ lastEvent.op = "handleDownload:done"
    /\ lastEvent.rec.history = "failed"
    /\ lastEvent.rec.format = "svg"
    /\ lastEvent.rec.blob \in revokeTimers
    /\ error = ""

\* C11: saveQRHistory is called at most once for a handleDownload, only after
\* downloadQRCode resolved; never while the export is in progress, never for
\* a failed export, never for a call of another caller, and never when
\* handleDownload returned for lack of an artifact.
C11_HistoryOnlyAfterSuccessfulExport ==
    /\ \A h \in historyCalls :
         /\ h.call = 1
         /\ h.after = "exportResolved"
         /\ h.slot \in 1..started
    /\ \A d \in 1..MaxDownloads :
         ( \/ downloads[d].pc \in {"importing", "loadingImage",
                                   "exportResolved", "exportRejected"}
           \/ downloads[d].caller = "direct" ) =>
              \A h \in historyCalls : h.slot # d
    /\ lastEvent.op \in {"handleDownload:failed", "downloadQRCode:resolved",
                         "downloadQRCode:rejected"} =>
         \A h \in historyCalls : h.slot # lastEvent.rec.id
    /\ (qrDataUrl = EmptyString /\ qrSvg = EmptyString) => historyCalls = {}

\* one export succeeded and was notified, a second one failed and was not
C11_Witness ==
    /\ started = 2
    /\ lastEvent.op = "handleDownload:failed"
    /\ \E h \in historyCalls : h.slot # lastEvent.rec.id
    /\ Cardinality(historyCalls) = 1


\* C12: every blob URL handleDownload created is revoked or has its
\* revocation scheduled once that handleDownload has ended, whatever the
\* outcome of downloadQRCode and of saveQRHistory; and a revocation is
\* scheduled only after the download was triggered.
C12_BlobUrlAlwaysRevoked ==
    /\ \A b \in blobs :
         downloads[b].pc = "free" => b \in revokeTimers \cup revokedBlobs
    /\ \A b \in revokeTimers \cup revokedBlobs :
         /\ b \in blobs
         /\ \E f \in savedFiles : f.ext = "svg" /\ f.href = "blob"

\* C13: whenever a handleDownload has triggered a save, the content it handed
\* to downloadQRCode is the blob URL of the markup in qrSvg for 'svg', and
\* the non-empty raster data URL in qrDataUrl for 'png' and 'pdf'.
C13_SavedContentMatchesFormat ==
    \A rec \in ExportCalls :
        (rec.caller = "handleDownload" /\ rec.saved) =>
            IF rec.format = "svg"
            THEN /\ qrSvg # EmptyString
                 /\ rec.dataUrl = BlobUrl(qrSvg)
                 /\ rec.dataUrl.kind = "blob"
            ELSE /\ qrDataUrl # EmptyString
                 /\ rec.dataUrl = qrDataUrl
                 /\ rec.dataUrl.kind = "png"

\* an SVG download completed with the blob of qrSvg saved
C13_Witness ==
    /\ lastEvent.op = "handleDownload:done"
    /\ lastEvent.rec.format = "svg"
    /\ lastEvent.rec.saved
    /\ lastEvent.rec.dataUrl = BlobUrl(qrSvg)
    /\ \E f \in savedFiles : f.ext = "svg" /\ f.href = "blob"

-----------------------------------------------------------------------------
(* Claims about overlapping generateQR runs, under SpecApp *)

AllRunsSettled == \A r \in 1..MaxRuns : runs[r].pc = "free"

\* C14: once every generateQR run has settled, the artifacts held are those
\* of the most recently requested configuration, which on the preview step
\* is the current config: handleGeneratePreview passed it to generateQR when
\* it entered the step, and no handler changes config there.
C14_StaleResultsIgnored ==
    ( /\ currentStep = "preview"
      /\ AllRunsSettled
      /\ qrDataUrl # EmptyString ) =>
        /\ qrDataUrl.config = config
        /\ qrSvg.config = config

\* C15: qrDataUrl and qrSvg are both empty, or the raster and the markup
\* that one generateQR run produced for one configuration.
C15_ArtifactsJoined ==
    \/ qrDataUrl = EmptyString /\ qrSvg = EmptyString
    \/ /\ qrDataUrl.kind = "png"
       /\ qrSvg.kind = "svg"
       /\ qrDataUrl.seq = qrSvg.seq
       /\ qrDataUrl.seq \in 1..requested
       /\ qrDataUrl.config = qrSvg.config

\* the artifacts of the first run were replaced, both, by those of the second
C15_Witness ==
    /\ lastEvent.op = "generateQR:succeeded"
    /\ qrDataUrl.seq = 2
    /\ qrSvg.seq = 2
    /\ runs[1].pc = "free"

-----------------------------------------------------------------------------
(* Claims about the image pattern of applyArtisticEffects, under SpecGen *)

\* the raster applyArtisticEffects returns for the same base raster and
\* style when no pattern image is configured
PlainStyledResult == CanvasRaster(<<"draw">> \o RegularStyleOps(genConfig.style))

\* C18: when a pattern image is configured and applying it failed at any
\* point, the raster applyArtisticEffects returns equals the plain styled
\* result.
C18_PatternFailureGivesPlainStyledResult ==
    (/\ genConfig.foregroundImage # ""
     /\ "fallback" \in stepsDone
     /\ rPc = "resolved")
        => rResult = PlainStyledResult

\* C19: no raster returned by applyArtisticEffects has both the pattern
\* stamped into it and the dot conversion run on it.
C19_PatternAndDotsExclusive ==
    rPc = "resolved" =>
        ~(\E i, j \in DOMAIN rResult.ops :
            rResult.ops[i] = "stamp" /\ rResult.ops[j] = "dots")

-----------------------------------------------------------------------------
(* Claims about generatePDF, under SpecPdf *)

PlacedImage == pdfDoc.images[1]
\* |a - b| for integers
AbsDiff(a, b) == IF a >= b THEN a - b ELSE b - a
\* page width and height less the margins, which are exact for these pages
MaxImgWidth == FromInt(pdfPage.width - 20)
MaxImgHeight == FromInt(pdfPage.height - 20)

\* C16: the resolved document has one page and one image, placed at width W
\* and height H within the maxima, one of them at its maximum, with
\* W * h = H * w and x = (pageWidth - W) / 2, y = (pageHeight - H) / 2.
C16_PlacementExact ==
    pdfPc = "resolved" =>
        LET W == PlacedImage.imgWidth
            H == PlacedImage.imgHeight
            x == PlacedImage.x
            y == PlacedImage.y
        IN /\ pdfDoc.pages = 1
           /\ Len(pdfDoc.images) = 1
           /\ ~FGt(W, MaxImgWidth)
           /\ ~FGt(H, MaxImgHeight)
           /\ W = MaxImgWidth \/ H = MaxImgHeight
           /\ NumOf(W) * pdfImage.height * DenOf(H)
                = NumOf(H) * pdfImage.width * DenOf(W)
           /\ 2 * NumOf(x) * DenOf(W)
                = (pdfPage.width * DenOf(W) - NumOf(W)) * DenOf(x)
           /\ 2 * NumOf(y) * DenOf(H)
                = (pdfPage.height * DenOf(H) - NumOf(H)) * DenOf(y)

\* C16 as amended: the same, with the aspect ratio and the centering holding
\* to within the rounding of the arithmetic: W * h and H * w differ by at
\* most 2^(2 - MantissaBits) of their value, and 2x from pageWidth - W (2y
\* from pageHeight - H) by at most 2^(-MantissaBits) of its value.
C16_PlacementWithinRounding ==
    pdfPc = "resolved" =>
        LET W == PlacedImage.imgWidth
            H == PlacedImage.imgHeight
            x == PlacedImage.x
            y == PlacedImage.y
            Wh == NumOf(W) * pdfImage.height * DenOf(H)
            Hw == NumOf(H) * pdfImage.width * DenOf(W)
            gapX == (pdfPage.width * DenOf(W) - NumOf(W)) * DenOf(x)
            gapY == (pdfPage.height * DenOf(H) - NumOf(H)) * DenOf(y)
        IN /\ pdfDoc.pages = 1
           /\ Len(pdfDoc.images) = 1
           /\ ~FGt(W, MaxImgWidth)
           /\ ~FGt(H, MaxImgHeight)
           /\ W = MaxImgWidth \/ H = MaxImgHeight
           /\ AbsDiff(Wh, Hw) * Pow2(MantissaBits - 2) <= Wh
           /\ AbsDiff(2 * NumOf(x) * DenOf(W), gapX) * Pow2(MantissaBits) <= gapX
           /\ AbsDiff(2 * NumOf(y) * DenOf(H), gapY) * Pow2(MantissaBits) <= gapY

\* an image higher than wide, limited by the height, whose width was rounded
C16_Witness ==
    /\ pdfPc = "resolved"
    /\ pdfImage.height > pdfImage.width
    /\ PlacedImage.imgHeight = MaxImgHeight
    /\ PlacedImage.imgWidth # MaxImgWidth
    /\ NumOf(PlacedImage.imgWidth) * pdfImage.height * DenOf(PlacedImage.imgHeight)
         # NumOf(PlacedImage.imgHeight) * pdfImage.width * DenOf(PlacedImage.imgWidth)

-----------------------------------------------------------------------------
(* Claims about applySVGArtisticEffects, under SpecSvg *)

\* C17: every id injected by a call of applySVGArtisticEffects is distinct
\* from every id injected by any other call.
C17_IdsDistinctAcrossCalls ==
    \A i, j \in DOMAIN svgOut :
        i # j => svgOut[i].ids \cap svgOut[j].ids = {}

-----------------------------------------------------------------------------
(* Claims about applyDotStyle, under SpecDots *)

\* the cells of the grid whose center pixel the image has
DotCells ==
    { c \in GridSteps(dotsWidth, dotsWidth) \X GridSteps(dotsHeight, dotsWidth) :
        /\ CellCenter(c[1], c[2], dotsWidth)[1] < dotsWidth
        /\ CellCenter(c[1], c[2], dotsWidth)[2] < dotsHeight }

\* a circle was filled whose center lies in the cell at (x, y)
CircleInCell(x, y) ==
    \E c \in dotsCircles :
        /\ 2 * x <= c.cx2 /\ c.cx2 < 2 * (x + spacing(dotsWidth))
        /\ 2 * y <= c.cy2 /\ c.cy2 < 2 * (y + spacing(dotsWidth))
        /\ c.fill = "foregroundColor"

\* C20: after applyDotStyle, a cell of the grid holds a filled circle in the
\* foreground colour exactly when the luminance (r + g + b) / 3 of the cell's
\* center pixel in the original image is below 128.
C20_CircleIffCenterPixelDark ==
    dotsPc = "done" =>
        \A c \in DotCells :
            LET center == CellCenter(c[1], c[2], dotsWidth)
            IN CircleInCell(c[1], c[2])
                 <=> IsDark(dotsData[center[2] * dotsWidth + center[1]])

-----------------------------------------------------------------------------
(* Claims about ExportOptions, under SpecExportOptions *)

\* C28: while a download of format f started from ExportOptions is in flight
\* the button of f is disabled, so no two downloads of one format overlap;
\* and once every download has settled isDownloading is null.
C28_ButtonDisabledWhileDownloading ==
    /\ \A i \in DOMAIN eoCalls :
         eoCalls[i].pc = "awaiting" => ButtonDisabled(eoCalls[i].format)
    /\ \A i, j \in DOMAIN eoCalls :
         (/\ i # j
          /\ eoCalls[i].pc = "awaiting"
          /\ eoCalls[j].pc = "awaiting") => eoCalls[i].format # eoCalls[j].format
    /\ (\A i \in DOMAIN eoCalls : eoCalls[i].pc # "awaiting")
         => isDownloading = "null"

-----------------------------------------------------------------------------
(* Claims about the loops of applyImagePattern, under SpecTiling *)

\* C29: applyImagePattern terminates for every pattern image that loads and
\* every positive canvas size: its tiling loops and its stamping loops finish
\* and the promise settles, also for a pattern image of width or height 0.
C29_ImagePatternLoopsTerminate ==
    <>(tilePc \in {"resolved", "rejected"})

-----------------------------------------------------------------------------
(* Claims about adjustColorBrightness, under SpecColor *)

\* a hex color: '#' and six hex digits, two per channel
IsHexColor(color) ==
    /\ Len(color) = 7
    /\ color[1] = "#"
    /\ \A i \in 2..7 : IsHexDigit(color[i])

\* the channel of a hex color that starts at a position, and a number of
\* 0..255 as two lowercase hex digits
ChannelOf(color, at) == 16 * HexDigitValue(color[at]) + HexDigitValue(color[at + 1])
TwoHexDigits(n) == <<HexDigits[(n \div 16) + 1], HexDigits[(n % 16) + 1]>>
Clamped(n) == IF n < 0 THEN 0 ELSE IF n > 255 THEN 255 ELSE n

\* C23: for a hex color with channels R, G, B and an integer delta,
\* adjustColorBrightness returns '#' and the two-digit hex forms of
\* max(0, min(255, channel + delta)); a channel that does not start with a
\* hex digit becomes 0; delta 0 is the identity on lowercase 6-digit colors.
C23_ChannelsClampedAfterDelta ==
    colorPc = "returned" =>
        LET color == colorIn.color
            delta == colorIn.amount
        IN /\ IsHexColor(color) =>
                colorOut = <<"#">>
                    \o TwoHexDigits(Clamped(ChannelOf(color, 2) + delta))
                    \o TwoHexDigits(Clamped(ChannelOf(color, 4) + delta))
                    \o TwoHexDigits(Clamped(ChannelOf(color, 6) + delta))
           /\ (Len(color) = 7 /\ color[1] = "#") =>
                \A k \in 0..2 :
                    ~IsHexDigit(color[2 + 2 * k]) =>
                        SubSeq(colorOut, 2 + 2 * k, 3 + 2 * k) = <<"0", "0">>
           /\ (IsHexColor(color) /\ delta = 0
                 /\ \A i \in 2..7 : \E j \in DOMAIN HexDigits : HexDigits[j] = color[i])
                => colorOut = color
           /\ Len(colorOut) = 7

\* '#000000' with delta 300 gave '#ffffff'
C23_Witness ==
    /\ colorPc = "returned"
    /\ colorIn = [color |-> <<"#", "0", "0", "0", "0", "0", "0">>, amount |-> 300]
    /\ colorOut = <<"#", "f", "f", "f", "f", "f", "f">>

-----------------------------------------------------------------------------
(* Claims about the markup of applySVGArtisticEffects, under SpecMarkup *)

\* where the first tag of a name stands in the returned markup, 0 if nowhere
FirstTag(name) ==
    IF \E i \in DOMAIN markupOut : markupOut[i].tag = name
    THEN CHOOSE i \in DOMAIN markupOut :
            markupOut[i].tag = name /\ \A j \in 1..(i - 1) : markupOut[j].tag # name
    ELSE 0

\* C21: for the artistic style and for the image-pattern fill, the injected
\* definitions stand within the root svg element, and every fill attribute of
\* the markup references the injected paint.
C21_DefsInsideRootAndFillsRewritten ==
    (/\ markupPc = "returned"
     /\ markupIn.foregroundImage \/ markupIn.style = "artistic")
        => /\ FirstTag("svg") < FirstTag("defs")
           /\ FirstTag("defs") < FirstTag("/svg")
           /\ \A i \in DOMAIN markupOut : \A k \in DOMAIN markupOut[i].attrs :
                markupOut[i].attrs[k].name = "fill" =>
                    markupOut[i].attrs[k].value =
                        (IF markupIn.foregroundImage
                         THEN "url(#qr-image-pattern)" ELSE "url(#qr-gradient)")

\* the value of the attribute of a name of a tag
AttrValue(t, name) ==
    LET k == CHOOSE j \in DOMAIN t.attrs : t.attrs[j].name = name
    IN t.attrs[k].value

\* C22: in the dots style every rectangle of the input, whatever the order
\* and form of its attributes, is replaced by a circle (with cx = x + width/2,
\* cy = y + height/2, r = min(width, height)/2 where these are integers); no
\* rectangle is left in the output.
C22_EveryRectBecomesCircle ==
    (/\ markupPc = "returned"
     /\ markupIn.style = "dots"
     /\ ~markupIn.foregroundImage)
        => \A i \in DOMAIN markupIn.markup :
             LET rect == markupIn.markup[i]
             IN rect.tag = "rect" =>
                  /\ markupOut[i].tag = "circle"
                  /\ AllIn(AttrValue(rect, "x"), AsciiDigit) =>
                       /\ AttrValue(markupOut[i], "cx") =
                            HalfString(2 * DecimalValue(AttrValue(rect, "x"))
                                         + DecimalValue(AttrValue(rect, "width")))
                       /\ AttrValue(markupOut[i], "cy") =
                            HalfString(2 * DecimalValue(AttrValue(rect, "y"))
                                         + DecimalValue(AttrValue(rect, "height")))
                       /\ AttrValue(markupOut[i], "r") =
                            HalfString(Min(DecimalValue(AttrValue(rect, "width")),
                                           DecimalValue(AttrValue(rect, "height"))))

=============================================================================
